---- MODULE Spec2Model ----
(***************************************************************************)
(* Phishing detector: the score fusion of the content-signal detectors     *)
(* (calculateSuspiciousScore), the linear classifier's two sigmoid         *)
(* transforms and the combined detector (analyzeForPhishing).              *)
(*                                                                         *)
(* Numbers are exact rationals <<n, d>> with d > 0, kept in lowest terms.  *)
(* The two IEEE values the code can produce besides finite numbers are     *)
(* NaN == <<0, 0>> and Infinity == <<1, 0>>.                               *)
(***************************************************************************)
EXTENDS Integers, Sequences, FiniteSets, Bags, TLC

VARIABLES
    features,      \* analyzeDom: the signal list being collected
    fusion,        \* analyzeDom: {} until calculateSuspiciousScore ran, then {its result}
    rawScore,      \* analyzeForPhishing: raw classifier score of the url, in half units
    domFeatures,   \* analyzeForPhishing: the domFeatures argument
    verdict,       \* analyzeForPhishing: {} until the call returned, then {the result}
    response,      \* content script: {} until sendResponse ran, then {what it sent}
    acquisition,   \* analyzeTabUrl: where the acquisition of the content signals stands
    url,           \* URLFeatureExtractor: the string a method was called with
    parsedUrl,     \* parseUrl: {} until the call returned, then {its result}
    hostnameArg,   \* extractDomainParts: its argument, with the pieces it was written from
    domainParts,   \* extractDomainParts: {} until the call returned, then {its result}
    metadata,      \* model_metadata.json: feature_names, coefficients, intercept, constants
    extractors,    \* the fields of the URLFeatureExtractor instances
    calls,         \* the extractFeatures calls made so far, with what each returned
    prediction,    \* PhishingDetector.predict: {} until the call returned, then {its result}
    tree,          \* the page: the content tree the detectors inspect
    now,           \* Date.now()
    pendingChecks, \* cookie-consent-detector: delays of its timers that have not fired yet
    lastDetectionResult,   \* cookie-consent-detector: module-level variable
    lastDetectionTime,     \* cookie-consent-detector: module-level variable
    inspections,   \* the analyzeDom calls made on this page so far, with what each returned
    artifact,      \* model_metadata.json: its lookup tables, {} where one is absent
    tableFields,   \* URLFeatureExtractor: {} until constructed, then {its table fields}
    tableResult,   \* extractFeatures over the table features: {} until it returned or threw
    signalList,    \* analyzeDom: its features array, names and values only
    detector,      \* analyzeDom: the detector that runs next, 0 when no call is under way
    inspected,     \* analyzeDom: {} until it returned, then {the features of its result}
    hiddenInputs,  \* the page: how many inputs of each kind input[type="hidden"] selects
    hiddenSignal,  \* extractInvisibleFeatures: {} until it pushed hiddenInputsSuspiciousRatio
    formPage,      \* the page: its input elements in document order, and what is known of the site
    dataCollection, \* analyzeDataCollection: {} until it returned, then {its result}
    settled,       \* getDomFeaturesForTab: its promise, {} while pending, then {the value}
    timeoutId,     \* getDomFeaturesForTab: its 8 s timer
    sendState,     \* getDomFeaturesForTab: where chrome.tabs.sendMessage and its callback stand
    elapsed,       \* milliseconds since getDomFeaturesForTab was called
    resolveCalls,  \* getDomFeaturesForTab: how often resolve has been called
    browserTabs,   \* the browser: each tab's status, document url and load state
    analyzedTabsData,  \* self.analyzedTabsData: per tab {} or {the stored entry}
    pendingAnalyses,   \* self.pendingAnalyses: per tab {} or {the start time}
    inFlight,      \* the analyses that have started and not settled, a bag
    clock          \* Date.now() in the service worker

vars == <<features, fusion, rawScore, domFeatures, verdict, response, acquisition,
          url, parsedUrl, hostnameArg, domainParts,
          metadata, extractors, calls, prediction,
          tree, now, pendingChecks, lastDetectionResult, lastDetectionTime, inspections,
          artifact, tableFields, tableResult,
          signalList, detector, inspected,
          hiddenInputs, hiddenSignal,
          formPage, dataCollection,
          settled, timeoutId, sendState, elapsed, resolveCalls,
          browserTabs, analyzedTabsData, pendingAnalyses, inFlight, clock>>

\* the variables of analyzeDom and of analyzeForPhishing
fusionVars == <<features, fusion>>
combinedVars == <<rawScore, domFeatures, verdict>>

\* the variables of the url feature extractor
parseVars == <<url, parsedUrl>>
domainVars == <<hostnameArg, domainParts>>
callVars == <<metadata, extractors, calls, prediction>>
urlVars == <<parseVars, domainVars, callVars>>

\* the variables of the content-signal acquisition
acquireVars == <<response, acquisition>>

\* the variables of the cookie-consent detector and of the page it runs in
consentVars == <<tree, now, pendingChecks, lastDetectionResult, lastDetectionTime, inspections>>

\* the variables of the lookup tables
tableVars == <<artifact, tableFields, tableResult>>

\* the variables of the parts modelled up to the cookie-consent detector
coreVars == <<fusionVars, combinedVars, acquireVars, urlVars, consentVars>>

\* the variables of analyzeDom's run through its detectors
inspectVars == <<signalList, detector, inspected>>

\* the variables of the hidden-input analysis
hiddenVars == <<hiddenInputs, hiddenSignal>>

\* the variables of the form data-collection analysis
formVars == <<formPage, dataCollection>>

\* the variables of getDomFeaturesForTab's promise
settleVars == <<settled, timeoutId, sendState, elapsed, resolveCalls>>

\* the variables of the service worker's per-tab bookkeeping
tabVars == <<browserTabs, analyzedTabsData, pendingAnalyses, inFlight, clock>>

backgroundVars == <<settleVars, tabVars>>

extVars == <<tableVars, inspectVars, hiddenVars, formVars, backgroundVars>>

\* everything but getDomFeaturesForTab's promise
besidesSettle == <<coreVars, tableVars, inspectVars, hiddenVars, formVars, tabVars>>

\* everything but the per-tab bookkeeping
besidesTabs == <<coreVars, tableVars, inspectVars, hiddenVars, formVars, settleVars>>

\* everything but the lookup tables
besidesTables == <<coreVars, inspectVars, hiddenVars, formVars, backgroundVars>>

\* everything but the run through the detectors
besidesInspect == <<coreVars, tableVars, hiddenVars, formVars, backgroundVars>>

\* everything but the hidden-input analysis
besidesHidden == <<coreVars, tableVars, inspectVars, formVars, backgroundVars>>

\* everything but the form data-collection analysis
besidesForm == <<coreVars, tableVars, inspectVars, hiddenVars, backgroundVars>>


----------------------------------------------------------------------------
(* Bounds *)

MaxSignals == 4
MaxRaw == 4

----------------------------------------------------------------------------
(* Number arithmetic *)

RECURSIVE GCD(_, _)
GCD(a, b) == IF b = 0 THEN a ELSE GCD(b, a % b)

Abs(n) == IF n < 0 THEN -n ELSE n

NaN == <<0, 0>>
Infinity == <<1, 0>>

IsNaN(x) == x[2] = 0 /\ x[1] = 0
IsFinite(x) == x[2] > 0

\* the number n/d (d /= 0) in lowest terms
R(n, d) ==
    LET g == GCD(Abs(n), Abs(d))
        s == IF d < 0 THEN -1 ELSE 1
    IN  <<s * (n \div g), s * (d \div g)>>

Zero == <<0, 1>>
One == <<1, 1>>
Half == <<1, 2>>

RAdd(x, y) ==
    IF IsNaN(x) \/ IsNaN(y) THEN NaN
    ELSE IF ~IsFinite(x) \/ ~IsFinite(y) THEN Infinity
    ELSE LET g == GCD(x[2], y[2])
         IN  R(x[1] * (y[2] \div g) + y[1] * (x[2] \div g), (x[2] \div g) * y[2])

RNeg(x) == IF IsFinite(x) THEN <<-x[1], x[2]>> ELSE x

RSub(x, y) == RAdd(x, RNeg(y))

RMul(x, y) ==
    IF ~IsFinite(x) \/ ~IsFinite(y) THEN NaN
    ELSE LET a == R(x[1], y[2])
             b == R(y[1], x[2])
         IN  R(a[1] * b[1], a[2] * b[2])

\* x / y as the language divides: 0/0 is NaN, a/0 is Infinity, a/Infinity is 0
RDiv(x, y) ==
    IF IsNaN(x) \/ IsNaN(y) \/ ~IsFinite(x) THEN NaN
    ELSE IF ~IsFinite(y) THEN <<0, 1>>
    ELSE IF y[1] = 0 THEN (IF x[1] = 0 THEN NaN ELSE Infinity)
    ELSE RMul(x, R(y[2], y[1]))

\* comparisons: every comparison with NaN is false
RLt(x, y) == IsFinite(x) /\ IsFinite(y) /\ x[1] * y[2] < y[1] * x[2]
RGt(x, y) == RLt(y, x)
RGe(x, y) == IsFinite(x) /\ IsFinite(y) /\ x[1] * y[2] >= y[1] * x[2]
RLe(x, y) == RGe(y, x)

RAbs(x) == IF IsFinite(x) THEN <<Abs(x[1]), x[2]>> ELSE x

\* Math.max / Math.min: NaN if either argument is NaN
MathMax(x, y) == IF IsNaN(x) \/ IsNaN(y) THEN NaN ELSE IF RGt(y, x) THEN y ELSE x
MathMin(x, y) == IF IsNaN(x) \/ IsNaN(y) THEN NaN ELSE IF RLt(y, x) THEN y ELSE x

\* Math.pow(x, 2)
Square(x) == RMul(x, x)

----------------------------------------------------------------------------
(* Signals (DomFeature) and the signal lists analyzeDom collects *)

\* checks of the detectors that run before the invisible-element detector
OrdinaryNames == <<"hasAuthenticationForm", "externalFormSubmission",
                   "collectsFinancialData", "maskedLinks", "suspiciousRedirects">>

\* the three high-precision checks of the invisible-element detector
InvisibleNames == <<"hasSuspiciousInvisibleCredentialInputs",
                    "hasOverlappingInputTraps", "hasSuspiciousTransparentOverlays">>

\* the order in which analyzeDom's detectors push their signals
CheckNames == OrdinaryNames \o InvisibleNames

NameIndex(name) == CHOOSE i \in 1..Len(CheckNames) : CheckNames[i] = name

IsOrdinary(name) == NameIndex(name) <= Len(OrdinaryNames)

DomFeature(name, value, weight, impact) ==
    [name |-> name, value |-> value, weight |-> weight, impact |-> impact]

\* (weight, impact) pairs an ordinary check reports; its value is "the check fired"
OrdinaryOutcomes ==
    { <<One, One>>, <<One, R(7, 10)>>, <<One, R(-3, 10)>>, <<One, R(-1, 1)>>,
      <<Half, R(7, 10)>>, <<Zero, Zero>> }

\* (value, weight, impact) triples an invisible-element check reports
InvisibleOutcomes ==
    { <<TRUE, One, One>>, <<FALSE, One, R(-3, 10)>>, <<FALSE, One, R(-1, 1)>> }

Signals ==
    { DomFeature(OrdinaryNames[i], RGt(o[2], Zero), o[1], o[2]) :
          i \in 1..Len(OrdinaryNames), o \in OrdinaryOutcomes }
    \cup
    { DomFeature(InvisibleNames[i], o[1], o[2], o[3]) :
          i \in 1..Len(InvisibleNames), o \in InvisibleOutcomes }

----------------------------------------------------------------------------
(* calculateSuspiciousScore *)

RECURSIVE SumSeq(_)
\* sum of a list of numbers, accumulated left to right
SumSeq(xs) ==
    IF xs = <<>> THEN Zero
    ELSE RAdd(SumSeq(SubSeq(xs, 1, Len(xs) - 1)), xs[Len(xs)])

\* features.forEach(feature => { sum += Term(feature) })
SumOver(fs, Term(_)) == SumSeq([i \in 1..Len(fs) |-> Term(fs[i])])

IsPhishingFeature(f) == RGt(f.impact, Zero)
IsLegitimateFeature(f) == RLt(f.impact, Zero)

phishingFeatures(fs) == SelectSeq(fs, IsPhishingFeature)
legitimateFeatures(fs) == SelectSeq(fs, IsLegitimateFeature)

WeightOf(f) == f.weight
PlainImpact(f) == RMul(f.impact, f.weight)
AbsImpact(f) == RMul(RAbs(f.impact), f.weight)

totalWeight(fs) == SumOver(fs, WeightOf)

\* features.find(f => f.name === name)?.value === true
FoundTrue(fs, name) ==
    /\ \E i \in 1..Len(fs) : fs[i].name = name
    /\ LET first == CHOOSE i \in 1..Len(fs) :
                       /\ fs[i].name = name
                       /\ \A j \in 1..(i - 1) : fs[j].name /= name
       IN  fs[first].value = TRUE

BoostedNames == { "hasSuspiciousInvisibleCredentialInputs",
                  "hasOverlappingInputTraps",
                  "hasSuspiciousTransparentOverlays" }

\* the named signal is present, whatever its value
BoostTriggered_Present(fs) ==
    \E name \in BoostedNames : \E i \in 1..Len(fs) : fs[i].name = name

\* hasSuspiciousInvisibleCredentials || hasOverlappingInputTraps || hasSuspiciousOverlays
BoostTriggered(fs) == \E name \in BoostedNames : FoundTrue(fs, name)

BoostFactor(name) ==
    IF name = "hasOverlappingInputTraps" THEN R(18, 10) ELSE R(15, 10)

\* what one feature adds to rawWeightedImpact
Contribution(f, triggered) ==
    IF triggered /\ f.name \in BoostedNames
    THEN RMul(RMul(f.impact, f.weight), BoostFactor(f.name))
    ELSE RMul(f.impact, f.weight)

rawWeightedImpact(fs) ==
    LET triggered == BoostTriggered(fs)
        Term(f) == Contribution(f, triggered)
    IN  SumOver(fs, Term)

\* the division without the totalWeight > 0 guard
weightedAvgImpact_NoGuard(fs) == RDiv(rawWeightedImpact(fs), totalWeight(fs))

weightedAvgImpact(fs) ==
    IF RGt(totalWeight(fs), Zero)
    THEN RDiv(rawWeightedImpact(fs), totalWeight(fs))
    ELSE Zero

\* basicScore = (weightedAvgImpact + 1) / 2
basicScoreOf(avg) == RDiv(RAdd(avg, One), R(2, 1))

legitimateRatio(fs) == RDiv(R(Len(legitimateFeatures(fs)), 1), R(Len(fs), 1))
phishingRatio(fs) == RDiv(R(Len(phishingFeatures(fs)), 1), R(Len(fs), 1))

phishingImpactSum(fs) == SumOver(phishingFeatures(fs), PlainImpact)
legitimateImpactSum(fs) == SumOver(legitimateFeatures(fs), AbsImpact)
totalImpactSum(fs) == RAdd(phishingImpactSum(fs), legitimateImpactSum(fs))

phishingImpactRatio(fs) ==
    IF RGt(totalImpactSum(fs), Zero)
    THEN RDiv(phishingImpactSum(fs), totalImpactSum(fs))
    ELSE Zero

avgPhishingImpact(fs) ==
    IF Len(phishingFeatures(fs)) > 0
    THEN RDiv(phishingImpactSum(fs), R(Len(phishingFeatures(fs)), 1))
    ELSE Zero

\* legitimateRatio > 0.7 && basicScore < 0.5
LegitimacyCondition(fs, basic) ==
    RGt(legitimateRatio(fs), R(7, 10)) /\ RLt(basic, Half)

Condition1(fs, basic) == RGt(phishingRatio(fs), R(4, 10)) /\ RGt(basic, Half)
Condition2(fs, basic) == RGt(phishingImpactRatio(fs), R(35, 100)) /\ RGt(basic, Half)
Condition3(fs, basic) ==
    /\ Len(phishingFeatures(fs)) > 0
    /\ RGt(avgPhishingImpact(fs), R(6, 10))
    /\ RGt(basic, R(45, 100))
Condition4(fs, basic) ==
    /\ RGt(phishingImpactSum(fs), RMul(legitimateImpactSum(fs), R(15, 10)))
    /\ RGt(basic, R(45, 100))

\* the third condition left out
EscalationCondition_NoCondition3(fs, basic) ==
    \/ Condition1(fs, basic)
    \/ Condition2(fs, basic)
    \/ Condition4(fs, basic)

EscalationCondition(fs, basic) ==
    \/ Condition1(fs, basic)
    \/ Condition2(fs, basic)
    \/ Condition3(fs, basic)
    \/ Condition4(fs, basic)

\* the if branch is taken
LegitimacyPullApplied(legitimacy) == legitimacy

\* a second if in place of the else-if
PhishingPullApplied_NotElse(legitimacy, escalation) == escalation

\* the else-if branch is taken
PhishingPullApplied(legitimacy, escalation) == ~legitimacy /\ escalation

\* the pull subtracted instead of scaled
LegitimacyPull_Subtract(s, fs) ==
    RSub(s, RMul(Square(legitimateRatio(fs)), Half))

\* finalScore = basicScore * (1 - pullFactor * 0.5)
LegitimacyPull(s, fs) ==
    RMul(s, RSub(One, RMul(Square(legitimateRatio(fs)), Half)))

\* finalScore = basicScore + (1 - basicScore) * pullFactor * adjustmentStrength
PhishingPull(s, fs) ==
    LET pullFactor == Square(MathMax(phishingRatio(fs), phishingImpactRatio(fs)))
    IN  RAdd(s, RMul(RMul(RSub(One, s), pullFactor), R(7, 10)))

\* the upper bound left out
Clamp_NoUpperBound(x) == MathMax(Zero, x)

\* Math.max(0, Math.min(1, finalScore))
Clamp(x) == MathMax(Zero, MathMin(One, x))

\* one pass of calculateSuspiciousScore, with the values of its locals
Fusion(fs) ==
    LET avg == weightedAvgImpact(fs)
        basic == basicScoreOf(avg)
        legitimacy == LegitimacyCondition(fs, basic)
        escalation == EscalationCondition(fs, basic)
        s1 == IF LegitimacyPullApplied(legitimacy) THEN LegitimacyPull(basic, fs) ELSE basic
        s2 == IF PhishingPullApplied(legitimacy, escalation) THEN PhishingPull(s1, fs) ELSE s1
    IN  [ features |-> fs,
          weightedAvgImpact |-> avg,
          basicScore |-> basic,
          legitimacyCondition |-> legitimacy,
          escalationCondition |-> escalation,
          legitimacyPull |-> LegitimacyPullApplied(legitimacy),
          phishingPull |-> PhishingPullApplied(legitimacy, escalation),
          finalScore |-> s2,
          suspiciousScore |-> Clamp(s2) ]

calculateSuspiciousScore(fs) == Fusion(fs).suspiciousScore

----------------------------------------------------------------------------
(* analyzeDom: the detectors push their signals in a fixed order, then the  *)
(* list is fused                                                            *)

\* features.push({name, value, weight, impact}) by the detector whose turn it
\* is: every check pushes one signal; the ordinary checks run first, one after
\* the other
PushFeature(f) ==
    /\ fusion = {}
    /\ Len(features) < MaxSignals
    /\ IF features = <<>> THEN TRUE
       ELSE NameIndex(features[Len(features)].name) < NameIndex(f.name)
    /\ IsOrdinary(f.name) => NameIndex(f.name) = Len(features) + 1
    /\ features' = Append(features, f)
    /\ UNCHANGED <<fusion, rawScore, domFeatures, verdict, acquireVars, urlVars, consentVars, extVars>>

\* const suspiciousScore = calculateSuspiciousScore(features)
Fuse ==
    /\ fusion = {}
    /\ fusion' = { Fusion(features) }
    /\ UNCHANGED <<features, rawScore, domFeatures, verdict, acquireVars, urlVars, consentVars, extVars>>

NextFusion == (\E f \in Signals : PushFeature(f)) \/ Fuse

----------------------------------------------------------------------------
(* PhishingDetector: the two sigmoid transforms and predict.  Raw scores    *)
(* are counted in halves; Math.exp is computed in thousandths.              *)

ExpScale == 1000
ExpOfHalf == 1649          \* e^(1/2)  in thousandths
ExpOfMinusHalf == 607      \* e^(-1/2) in thousandths
ExpOverflowArg == 1419     \* Math.exp(x) is Infinity for x > 709.78
ExpUnderflowArg == 1490    \* Math.exp(x) is 0 for x < -745.13

RECURSIVE ExpFixed(_)
ExpFixed(h) ==
    IF h = 0 THEN ExpScale
    ELSE IF h > 0 THEN (ExpFixed(h - 1) * ExpOfHalf) \div ExpScale
    ELSE (ExpFixed(h + 1) * ExpOfMinusHalf) \div ExpScale

\* Math.exp(h / 2)
MathExp(h) ==
    IF h > ExpOverflowArg THEN Infinity
    ELSE IF h < -ExpUnderflowArg THEN Zero
    ELSE R(ExpFixed(h), ExpScale)

sigmoid_NoAbs(x) == RDiv(One, RAdd(One, MathExp(-x)))

\* 1 / (1 + Math.exp(-Math.abs(x)))
sigmoid(x) == RDiv(One, RAdd(One, MathExp(-Abs(x))))

\* 1 / (1 + Math.exp(-x))
calculatePhishingProbability(x) == RDiv(One, RAdd(One, MathExp(-x)))

predict(raw) ==
    [ isPhishing |-> raw > 0,
      score |-> raw,
      probability |-> sigmoid(raw),
      phishingProbability |-> calculatePhishingProbability(raw) ]

\* far enough from 0 for Math.exp to leave the finite range
ExtremeRaw == 1500

RawScores == (-MaxRaw .. MaxRaw) \cup { -ExtremeRaw, ExtremeRaw }

----------------------------------------------------------------------------
(* The domFeatures argument of analyzeForPhishing *)

NoFeatures == <<>>

Undefined == [kind |-> "undefined", features |-> NoFeatures, suspiciousScore |-> Zero]
Null == [kind |-> "null", features |-> NoFeatures, suspiciousScore |-> Zero]

DomFeaturesObject(fs, score) ==
    [kind |-> "object", features |-> fs, suspiciousScore |-> score]

\* !!domFeatures
Truthy(df) == df.kind = "object"

\* { features: [{ name, value: true, weight: 0, impact: 0 }], suspiciousScore: 0 }
ErrorIndicator(name) ==
    DomFeaturesObject(<<DomFeature(name, TRUE, Zero, Zero)>>, Zero)

\* names of the single-signal records the failure paths build
ErrorIndicatorNames ==
    { "timeoutError", "communicationError", "invalidStructure", "invalidResponse",
      "exceptionError", "unexpectedError", "analysisError", "emptyResultError",
      "criticalError" }

\* the content script's fallback analysis
FallbackFeatures(hasPasswordField, hasForm) ==
    DomFeaturesObject(
        << DomFeature("fallbackMode", TRUE, Zero, Zero),
           DomFeature("hasPasswordField", hasPasswordField, R(7, 10), R(5, 10)),
           DomFeature("hasLoginForm", hasForm, R(8, 10), R(6, 10)) >>,
        IF hasPasswordField THEN R(6, 10) ELSE R(3, 10))

\* names the failure paths put into a signal list to mark it as failed
EmittedSentinelNames == ErrorIndicatorNames \cup { "fallbackMode" }

\* what analyzeDom returns for a collected signal list
AnalyzeDomResult(fs) == DomFeaturesObject(fs, calculateSuspiciousScore(fs))

CollectedLists ==
    { <<>> } \cup { <<f>> : f \in { g \in Signals : ~IsOrdinary(g.name) \/ NameIndex(g.name) = 1 } }

DomFeaturesInputs ==
    { Undefined, Null }
    \cup { ErrorIndicator(n) : n \in ErrorIndicatorNames }
    \cup { FallbackFeatures(p, f) : p \in BOOLEAN, f \in BOOLEAN }
    \cup { AnalyzeDomResult(fs) : fs \in CollectedLists }

----------------------------------------------------------------------------
(* analyzeForPhishing *)

\* the names the combined detector looks for
RecognisedErrorNames ==
    { "timeoutError", "communicationError", "invalidResponse", "exceptionError",
      "analysisError", "criticalError", "fallbackMode", "unexpectedError" }

\* domFeatures.features.some(f => [...].includes(f.name))
hasErrorFeatures(df) ==
    \E i \in 1..Len(df.features) : df.features[i].name \in RecognisedErrorNames

\* a number used as a condition: 0 and NaN are falsy
TruthyNumber(x) == ~IsNaN(x) /\ x /= Zero

\* phishingProbability || probability
urlScoreOf(urlAnalysis) ==
    IF TruthyNumber(urlAnalysis.phishingProbability)
    THEN urlAnalysis.phishingProbability
    ELSE urlAnalysis.probability

InitialUrlWeight(df) == IF Truthy(df) THEN Half ELSE One
InitialDomWeight(df) == IF Truthy(df) THEN Half ELSE Zero

urlWeightOf(df) ==
    IF Truthy(df) /\ hasErrorFeatures(df) THEN R(9, 10) ELSE InitialUrlWeight(df)

\* the error branch sets urlWeight only
domWeightOf_NoOverride(df) == InitialDomWeight(df)

domWeightOf(df) ==
    IF Truthy(df) /\ hasErrorFeatures(df) THEN R(1, 10) ELSE InitialDomWeight(df)

\* urlResult !== undefined && domFeatures !== undefined
bothDetectorsComplete(df) == df.kind /= "undefined"

\* Math.round(x): the nearest integer, halves rounded up
MathRound(x) == (2 * x[1] + x[2]) \div (2 * x[2])

analyzeForPhishing(raw, df) ==
    LET urlAnalysis == predict(raw)
        urlScore == urlScoreOf(urlAnalysis)
        urlWeight == urlWeightOf(df)
        domWeight == domWeightOf(df)
        domScore == IF Truthy(df) THEN df.suspiciousScore ELSE Zero
        domResult == Truthy(df) /\ RGe(domScore, Half)
        final == IF Truthy(df)
                 THEN RAdd(RMul(urlScore, urlWeight), RMul(domScore, domWeight))
                 ELSE RMul(urlScore, InitialUrlWeight(df))
    IN  [ isPhishing |-> RGe(final, Half),
          urlDetectorResult |-> urlAnalysis.isPhishing,
          domDetectorResult |-> IF Truthy(df) THEN {domResult} ELSE {},
          confidence |-> IF bothDetectorsComplete(df)
                         THEN { MathRound(RMul(final, R(100, 1))) }
                         ELSE {},
          urlFeatures |-> urlAnalysis,
          domFeatures |-> df,
          calculationDetails |->
              [ urlWeight |-> urlWeight,
                urlScore |-> urlScore,
                urlContribution |-> RMul(urlScore, InitialUrlWeight(df)),
                domWeight |-> IF Truthy(df) THEN {domWeight} ELSE {},
                domScore |-> IF Truthy(df) THEN {domScore} ELSE {},
                domContribution |-> IF Truthy(df) THEN {RMul(domScore, domWeight)} ELSE {} ],
          \* the function's locals when it returns
          finalScore |-> final,
          urlWeight |-> urlWeight,
          domWeight |-> domWeight,
          domScore |-> domScore ]

\* the call analyzeForPhishing(url, domFeatures) runs and returns
Analyze ==
    /\ verdict = {}
    /\ verdict' = { analyzeForPhishing(rawScore, domFeatures) }
    /\ UNCHANGED <<features, fusion, rawScore, domFeatures, acquireVars, urlVars, consentVars, extVars>>

NextCombined == Analyze

----------------------------------------------------------------------------
(* Acquisition of the content signals: analyzeTabUrl asks the content       *)
(* script (getDomFeaturesForTab), the content script's getDomFeatures       *)
(* handler answers, and the verdict is computed with what was acquired.     *)

\* what the content script passes to sendResponse, and the branch that built it
Response(branch, df) == [branch |-> branch, domFeatures |-> df]

\* a domFeatures payload whose features member is not an array
Malformed == [kind |-> "noFeaturesArray", features |-> NoFeatures, suspiciousScore |-> Zero]

\* analysisPromise: analyzeDom() returned the fused signal list
RespondAnalysis(fs) ==
    /\ acquisition = "requested"
    /\ response = {}
    /\ response' = { Response("analysis", AnalyzeDomResult(fs)) }
    /\ UNCHANGED <<features, fusion, rawScore, domFeatures, verdict, acquisition, urlVars, consentVars, extVars>>

\* analyzeDom() caught an exception of a detector and returned its error result
RespondAnalyzeDomError ==
    /\ acquisition = "requested"
    /\ response = {}
    /\ response' = { Response("analyzeDomError", ErrorIndicator("analysisError")) }
    /\ UNCHANGED <<features, fusion, rawScore, domFeatures, verdict, acquisition, urlVars, consentVars, extVars>>

\* analyzeDom() threw: the handler's fallback analysis
RespondFallback(hasPasswordField, hasForm) ==
    /\ acquisition = "requested"
    /\ response = {}
    /\ response' = { Response("fallback", FallbackFeatures(hasPasswordField, hasForm)) }
    /\ UNCHANGED <<features, fusion, rawScore, domFeatures, verdict, acquisition, urlVars, consentVars, extVars>>

\* the fallback analysis threw as well
RespondFallbackFailed ==
    /\ acquisition = "requested"
    /\ response = {}
    /\ response' = { Response("fallbackFailed", ErrorIndicator("analysisError")) }
    /\ UNCHANGED <<features, fusion, rawScore, domFeatures, verdict, acquisition, urlVars, consentVars, extVars>>

\* the race was won by an analysis that resolved with nothing
RespondEmptyResult ==
    /\ acquisition = "requested"
    /\ response = {}
    /\ response' = { Response("emptyResult", ErrorIndicator("emptyResultError")) }
    /\ UNCHANGED <<features, fusion, rawScore, domFeatures, verdict, acquisition, urlVars, consentVars, extVars>>

\* the race was won by the content script's 5 s timeout
RespondTimeout ==
    /\ acquisition = "requested"
    /\ response = {}
    /\ response' = { Response("contentTimeout", ErrorIndicator("timeoutError")) }
    /\ UNCHANGED <<features, fusion, rawScore, domFeatures, verdict, acquisition, urlVars, consentVars, extVars>>

\* the handler's outermost catch
RespondCritical ==
    /\ acquisition = "requested"
    /\ response = {}
    /\ response' = { Response("critical", ErrorIndicator("criticalError")) }
    /\ UNCHANGED <<features, fusion, rawScore, domFeatures, verdict, acquisition, urlVars, consentVars, extVars>>

ContentScript ==
    \/ \E fs \in CollectedLists : RespondAnalysis(fs)
    \/ RespondAnalyzeDomError
    \/ \E p \in BOOLEAN, f \in BOOLEAN : RespondFallback(p, f)
    \/ RespondFallbackFailed
    \/ RespondEmptyResult
    \/ RespondTimeout
    \/ RespondCritical

\* getDomFeaturesForTab: the 8 s timer fires before the callback ran
BackgroundTimeout ==
    /\ acquisition = "requested"
    /\ domFeatures' = ErrorIndicator("timeoutError")
    /\ acquisition' = "timeout"
    /\ UNCHANGED <<features, fusion, rawScore, verdict, response, urlVars, consentVars, extVars>>

\* the callback runs with chrome.runtime.lastError set
CallbackLastError ==
    /\ acquisition = "requested"
    /\ domFeatures' = ErrorIndicator("communicationError")
    /\ acquisition' = "lastError"
    /\ UNCHANGED <<features, fusion, rawScore, verdict, response, urlVars, consentVars, extVars>>

\* the callback runs without lastError; delivered is response.domFeatures
Callback(delivered) ==
    /\ acquisition = "requested"
    /\ IF delivered.kind \in { "undefined", "null" }
       THEN /\ domFeatures' = ErrorIndicator("invalidResponse")
            /\ acquisition' = "invalidResponse"
       ELSE IF delivered.kind = "noFeaturesArray"
       THEN /\ domFeatures' = ErrorIndicator("invalidStructure")
            /\ acquisition' = "invalidStructure"
       ELSE /\ domFeatures' = delivered
            /\ acquisition' = "received"
    /\ UNCHANGED <<features, fusion, rawScore, verdict, response, urlVars, consentVars, extVars>>

\* what the messaging channel can hand to the callback
Delivered == { r.domFeatures : r \in response } \cup { Undefined, Malformed }

\* chrome.tabs.sendMessage threw
SendMessageThrows ==
    /\ acquisition = "requested"
    /\ response = {}
    /\ domFeatures' = ErrorIndicator("exceptionError")
    /\ acquisition' = "exception"
    /\ UNCHANGED <<features, fusion, rawScore, verdict, response, urlVars, consentVars, extVars>>

\* analyzeTabUrl: const result = await analyzeForPhishing(url, domFeatures)
AnalyzeTab ==
    /\ acquisition \notin { "idle", "requested" }
    /\ verdict = {}
    /\ verdict' = { analyzeForPhishing(rawScore, domFeatures) }
    /\ UNCHANGED <<features, fusion, rawScore, domFeatures, acquireVars, urlVars, consentVars, extVars>>

NextAcquire ==
    \/ ContentScript
    \/ BackgroundTimeout
    \/ CallbackLastError
    \/ \E d \in Delivered : Callback(d)
    \/ SendMessageThrows
    \/ AnalyzeTab

----------------------------------------------------------------------------
(* Strings are sequences of one-character strings.  Positions are counted   *)
(* from 1, and IndexOf is 0 where indexOf is -1.                            *)

MaxUrlTokens == 4

SetMin(S) == CHOOSE x \in S : \A y \in S : x <= y

\* s.indexOf(pat)
IndexOf(s, pat) ==
    LET hits == { i \in 1..(Len(s) - Len(pat) + 1) : SubSeq(s, i, i + Len(pat) - 1) = pat }
    IN  IF hits = {} THEN 0 ELSE SetMin(hits)

\* s.includes(pat)
Includes(s, pat) == IndexOf(s, pat) > 0

\* s.startsWith(pat)
StartsWith(s, pat) == Len(pat) <= Len(s) /\ SubSeq(s, 1, Len(pat)) = pat

\* s.substring(from) with from counted from 1
Substring(s, from) == SubSeq(s, from, Len(s))

\* s.split(sep): every occurrence of sep separates two parts
RECURSIVE Split(_, _)
Split(s, sep) ==
    LET i == IndexOf(s, sep)
    IN  IF i = 0 THEN <<s>>
        ELSE <<SubSeq(s, 1, i - 1)>> \o Split(Substring(s, i + Len(sep)), sep)

\* parts.join(sep)
RECURSIVE Join(_, _)
Join(parts, sep) ==
    IF parts = <<>> THEN <<>>
    ELSE IF Len(parts) = 1 THEN parts[1]
    ELSE parts[1] \o sep \o Join(Tail(parts), sep)

\* c.toLowerCase() for the letters in use
LowerChar(c) ==
    IF c = "A" THEN "a"
    ELSE IF c = "H" THEN "h"
    ELSE c

\* s.toLowerCase()
ToLowerCase(s) == [i \in 1..Len(s) |-> LowerChar(s[i])]

\* parts[i] with i counted from 1: {} where the element is undefined
Elem(parts, i) == IF i \in 1..Len(parts) THEN { parts[i] } ELSE {}

\* x || '' for a string or undefined
OrEmpty(x) == IF x = {} THEN <<>> ELSE CHOOSE v \in x : TRUE

SchemeSeparator == <<":", "/", "/">>

----------------------------------------------------------------------------
(* URLFeatureExtractor: normalizeUrl and parseUrl *)

\* if (!url.includes('://')) return 'http://' + url
normalizeUrl(u) ==
    IF ~Includes(u, SchemeSeparator)
    THEN <<"h", "t", "t", "p">> \o SchemeSeparator \o u
    ELSE u

\* the part after the second separator is taken
SchemeRest_Third(schemeParts) == Elem(schemeParts, 3)

\* url = schemeParts[1]
SchemeRest(schemeParts) == Elem(schemeParts, 2)

\* parseUrl; threw is TRUE where a method is called on undefined
parseUrl(u) ==
    LET hasFragment == Includes(u, <<"#">>)
        fragmentParts == Split(u, <<"#">>)
        u1 == IF hasFragment THEN fragmentParts[1] ELSE u
        fragment == IF hasFragment THEN OrEmpty(Elem(fragmentParts, 2)) ELSE <<>>
        hasScheme == Includes(u1, SchemeSeparator)
        schemeParts == Split(u1, SchemeSeparator)
        scheme == IF hasScheme THEN ToLowerCase(schemeParts[1]) ELSE <<>>
        rest == IF hasScheme THEN SchemeRest(schemeParts) ELSE { u1 }
        threw == rest = {}
        u2 == OrEmpty(rest)
        pathStart == IndexOf(u2, <<"/">>)
        hostname0 == IF pathStart /= 0 THEN SubSeq(u2, 1, pathStart - 1) ELSE u2
        u3 == IF pathStart /= 0 THEN Substring(u2, pathStart) ELSE <<>>
        queryStart == IndexOf(u3, <<"?">>)
        path0 == IF queryStart /= 0 THEN SubSeq(u3, 1, queryStart - 1) ELSE u3
        query == IF queryStart /= 0 THEN Substring(u3, queryStart + 1) ELSE <<>>
        hostname == IF Includes(hostname0, <<"@">>)
                    THEN LET userParts == Split(hostname0, <<"@">>)
                         IN  OrEmpty(Elem(userParts, Len(userParts)))
                    ELSE hostname0
        path == IF path0 /= <<>> /\ ~StartsWith(path0, <<"/">>)
                THEN <<"/">> \o path0
                ELSE path0
    IN  [ threw |-> threw,
          scheme |-> scheme,
          hostname |-> hostname,
          path |-> path,
          query |-> query,
          fragment |-> fragment ]

\* the pieces urls are put together from
UrlTokens ==
    { <<"a">>, <<"H">>, SchemeSeparator, <<"/">>, <<"?">>, <<"#">>, <<"@">>, <<":">> }

\* the strings written with at most n of the tokens
RECURSIVE TokenStrings(_, _)
TokenStrings(tokens, n) ==
    IF n = 0 THEN { <<>> }
    ELSE LET shorter == TokenStrings(tokens, n - 1)
         IN  shorter \cup { s \o t : s \in shorter, t \in tokens }

Urls == TokenStrings(UrlTokens, MaxUrlTokens)

\* parseUrl(url) is called and returns
ParseUrl ==
    /\ parsedUrl = {}
    /\ parsedUrl' = { parseUrl(url) }
    /\ UNCHANGED <<fusionVars, combinedVars, acquireVars, url, domainVars, callVars, consentVars, extVars>>

NextParse == ParseUrl

----------------------------------------------------------------------------
(* URLFeatureExtractor: isIpAddress and extractDomainParts *)

MaxLabels == 4

Digits == <<"0", "1", "2", "3", "4", "5", "6", "7", "8", "9">>

\* /\d/.test(c)
IsDigit(c) == \E i \in 1..Len(Digits) : Digits[i] = c

DigitValue(c) == (CHOOSE i \in 1..Len(Digits) : Digits[i] = c) - 1

\* parseInt(s, 10) for a string of digits
RECURSIVE ParseInt(_)
ParseInt(s) ==
    IF s = <<>> THEN 0
    ELSE 10 * ParseInt(SubSeq(s, 1, Len(s) - 1)) + DigitValue(s[Len(s)])

\* /^(\d{1,3}\.){3}\d{1,3}$/.test(str) and every octet within 0..255
isIpAddress(str) ==
    LET octets == Split(str, <<".">>)
    IN  /\ Len(octets) = 4
        /\ \A i \in 1..4 :
              /\ Len(octets[i]) \in 1..3
              /\ \A j \in 1..Len(octets[i]) : IsDigit(octets[i][j])
        /\ \A i \in 1..4 : ParseInt(octets[i]) >= 0 /\ ParseInt(octets[i]) <= 255

\* hostname.replace(/\.+$/, '')
RECURSIVE StripTrailingDots(_)
StripTrailingDots(s) ==
    IF s /= <<>> /\ s[Len(s)] = "."
    THEN StripTrailingDots(SubSeq(s, 1, Len(s) - 1))
    ELSE s

\* constants.multiLevelTlds of the model metadata
multiLevelTlds == { <<"c", "o", ".", "u", "k">>, <<"o", "r", "g", ".", "u", "k">> }

\* the prefixes that mark a multi-level tld
MultiLevelPrefixes ==
    { <<"c", "o", ".">>, <<"c", "o", "m", ".">>, <<"a", "c", ".">>,
      <<"e", "d", "u", ".">>, <<"g", "o", "v", ".">> }

\* the second-level labels of a compound country-code tld
SecondLevelLabels ==
    { <<"c", "o">>, <<"c", "o", "m">>, <<"o", "r", "g">>, <<"n", "e", "t">>,
      <<"a", "c">>, <<"g", "o", "v">>, <<"e", "d", "u">> }

DomainParts(subdomain, domain, tld) ==
    [subdomain |-> subdomain, domain |-> domain, tld |-> tld]

\* parts.slice(from - 1, to).join('.') with from and to counted from 1
JoinSlice(parts, from, to) == Join(SubSeq(parts, from, to), <<".">>)

\* the multi-level test of the loop for the last i labels
IsMultiLevelTld(potentialTld) ==
    \/ ToLowerCase(potentialTld) \in multiLevelTlds
    \/ \E prefix \in MultiLevelPrefixes : StartsWith(ToLowerCase(potentialTld), prefix)

\* the loop tests the longest suffix first
LongestFirst(S) == CHOOSE i \in S : \A j \in S : j <= i

\* the loop tests the shortest suffix first
MatchedLength_ShortestFirst(S) == SetMin(S)

\* for (let i = Math.min(3, parts.length - 1); i > 0; i--): the i the loop returns at
MatchedLength(S) == LongestFirst(S)

\* the port is left in place
StripPort_Keep(h) == h

\* if (hostname.includes(':')) hostname = hostname.split(':')[0]
StripPort(h) == IF Includes(h, <<":">>) THEN Split(h, <<":">>)[1] ELSE h

extractDomainParts(h) ==
    LET h1 == StripTrailingDots(h)
        h2 == StripPort(h1)
        parts == Split(h2, <<".">>)
        n == Len(parts)
        upper == IF n - 1 < 3 THEN n - 1 ELSE 3
        matches == { i \in 1..upper : IsMultiLevelTld(JoinSlice(parts, n - i + 1, n)) }
    IN  IF isIpAddress(h2) THEN DomainParts(<<>>, h2, <<>>)
        ELSE IF n = 1 THEN DomainParts(<<>>, parts[1], <<>>)
        ELSE IF n = 2 THEN DomainParts(<<>>, parts[1], parts[2])
        ELSE IF matches /= {}
        THEN LET i == MatchedLength(matches)
             IN  DomainParts(IF n > i + 1 THEN JoinSlice(parts, 1, n - i - 1) ELSE <<>>,
                             IF n > i THEN parts[n - i] ELSE <<>>,
                             JoinSlice(parts, n - i + 1, n))
        ELSE IF n >= 3 /\ parts[n - 1] \in SecondLevelLabels /\ Len(parts[n]) = 2
        THEN DomainParts(IF n > 3 THEN JoinSlice(parts, 1, n - 3) ELSE <<>>,
                         parts[n - 2],
                         parts[n - 1] \o <<".">> \o parts[n])
        ELSE DomainParts(JoinSlice(parts, 1, n - 2), parts[n - 1], parts[n])

\* the labels hostnames are written from
Labels ==
    { <<"a">>, <<"c", "o">>, <<"o", "r", "g">>, <<"u", "k">>, <<"1">>, <<"2", "5", "6">> }

RECURSIVE LabelLists(_)
LabelLists(n) ==
    IF n = 0 THEN { <<>> }
    ELSE LET shorter == LabelLists(n - 1)
         IN  shorter \cup { Append(ls, l) : ls \in shorter, l \in Labels }

\* what can follow the labels: nothing, trailing dots, a port, or both
HostSuffixes ==
    { <<>>, <<".">>, <<".", ".">>, <<":", "8">>, <<":", "8", ".">>, <<".", ":", "8">> }

Hostname(labels, suffix) ==
    [labels |-> labels, suffix |-> suffix, text |-> Join(labels, <<".">>) \o suffix]

NoHostname == Hostname(<<>>, <<>>)

Hostnames == { Hostname(ls, sfx) : ls \in LabelLists(MaxLabels), sfx \in HostSuffixes }

\* extractDomainParts(hostname) is called and returns
ExtractDomainParts ==
    /\ domainParts = {}
    /\ domainParts' = { extractDomainParts(hostnameArg.text) }
    /\ UNCHANGED <<fusionVars, combinedVars, acquireVars, parseVars, hostnameArg, callVars, consentVars, extVars>>

NextDomain == ExtractDomainParts

----------------------------------------------------------------------------
(* URLFeatureExtractor.extractFeatures and PhishingDetector.predict.  The   *)
(* feature vector is the list of its <<name, value>> entries in insertion   *)
(* order.  Coefficients, intercept and raw scores are counted in halves.    *)

MaxCallTokens == 2
MaxExtractTokens == 1
MaxCalls == 3

Metadata(names, coefficients, intercept, keywords) ==
    [ feature_names |-> names,
      coefficients |-> coefficients,
      intercept |-> intercept,
      suspiciousKeywords |-> keywords ]

NoMetadata == Metadata(<<>>, <<>>, 0, <<>>)

\* the metadata files the model is run with
Models ==
    { Metadata(<<"has_at_symbol", "path_depth", "keyword_count", "brand_similarity">>,
               <<2, 1, -1, 3>>, -2, << <<"a", ".", "a">> >>),
      Metadata(<<"domain_length", "subdomain_count", "has_port", "domain_only_length">>,
               <<-1, 2, 3, 1>>, 0, << <<"a", ".", "a">> >>) }

\* constructor(): the fields are copied from the metadata
NewExtractor(md) == [suspiciousKeywords |-> md.suspiciousKeywords]

Instances == { 1, 2 }

\* the number of elements of xs that satisfy Test
CountWhere(xs, Test(_)) == Cardinality({ i \in 1..Len(xs) : Test(xs[i]) })

\* calculateFeature for the features whose value is a whole number
calculateFeature(ex, featureName, u, parsed, parts) ==
    LET contains(kw) == Includes(ToLowerCase(u), kw)
        isSlash(c) == c = "/"
        known(v) == [value |-> v, warned |-> FALSE]
    IN  IF featureName = "keyword_count"
            THEN known(CountWhere(ex.suspiciousKeywords, contains))
        ELSE IF featureName = "subdomain_count"
            THEN known(IF parts.subdomain /= <<>>
                       THEN Len(Split(parts.subdomain, <<".">>)) ELSE 0)
        ELSE IF featureName = "has_at_symbol"
            THEN known(IF Includes(u, <<"@">>) THEN 1 ELSE 0)
        ELSE IF featureName = "has_port"
            THEN known(IF Includes(parsed.hostname, <<":">>) THEN 1 ELSE 0)
        ELSE IF featureName = "path_depth"
            THEN known(IF Len(parsed.path) > 0 THEN CountWhere(parsed.path, isSlash) ELSE 0)
        ELSE IF featureName = "domain_length"
            THEN known(IF parts.domain /= <<>> THEN Len(parts.domain) ELSE 0)
        ELSE IF featureName = "domain_only_length"
            THEN known(Len(parsed.hostname))
        ELSE [value |-> 0, warned |-> TRUE]

\* features[name], {} where the vector has no such key
Lookup(vector, name) ==
    { vector[i][2] : i \in { j \in 1..Len(vector) : vector[j][1] = name } }

\* an entry with value 0 is not stored
Assign_SkipZero(vector, name, value) ==
    IF value = 0 THEN vector ELSE Append(vector, <<name, value>>)

\* features[name] = value: an existing key keeps its place
Assign(vector, name, value) ==
    IF \E i \in 1..Len(vector) : vector[i][1] = name
    THEN [i \in 1..Len(vector) |->
             IF vector[i][1] = name THEN <<name, value>> ELSE vector[i]]
    ELSE Append(vector, <<name, value>>)

\* the one element of a set with one element: Only({ e(x) : x \in {v} }) is
\* e(v) with v computed once
Only(S) == CHOOSE x \in S : TRUE

\* the loop over feature_names, up to and including the n-th name
RECURSIVE FeatureLoop(_, _, _, _, _, _)
FeatureLoop(ex, names, n, u, parsed, parts) ==
    IF n = 0 THEN [features |-> <<>>, warnings |-> <<>>]
    ELSE Only({ [ features |-> Assign(before.features, names[n], f.value),
                  warnings |-> IF f.warned THEN Append(before.warnings, names[n])
                               ELSE before.warnings ] :
                before \in { FeatureLoop(ex, names, n - 1, u, parsed, parts) },
                f \in { calculateFeature(ex, names[n], u, parsed, parts) } })

\* extractFeatures(url) once url is normalized and parsed and the hostname split
ExtractedFrom(ex, md, u, parsed, parts) ==
    IF parsed.threw
    THEN [ threw |-> TRUE, features |-> <<>>, warnings |-> <<>>,
           parsedUrl |-> parsed, domainParts |-> DomainParts(<<>>, <<>>, <<>>) ]
    ELSE Only({ [ threw |-> FALSE, features |-> loop.features, warnings |-> loop.warnings,
                  parsedUrl |-> parsed, domainParts |-> parts ] :
                loop \in { FeatureLoop(ex, md.feature_names, Len(md.feature_names),
                                       u, parsed, parts) } })

\* extractFeatures(url) of the extractor with the fields ex
extractFeatures(ex, md, u0) ==
    Only(UNION { UNION { { ExtractedFrom(ex, md, u, parsed, parts) :
                           parts \in { extractDomainParts(parsed.hostname) } } :
                         parsed \in { parseUrl(u) } } :
                 u \in { normalizeUrl(u0) } })

\* the fields of an extractor after extractFeatures(url): none is assigned
FieldsAfterExtract_Remembers(ex, u) ==
    [ex EXCEPT !.suspiciousKeywords = Append(@, ToLowerCase(normalizeUrl(u)))]

FieldsAfterExtract(ex, u) == ex

\* features[featureName] || 0
OrZero(x) == IF x = {} THEN 0 ELSE CHOOSE v \in x : TRUE

\* the i-th coefficient is paired with the name at the mirrored position
PairedName_Mirrored(names, i) == names[Len(names) + 1 - i]

\* const featureName = this.featureNames[i]
PairedName(names, i) == names[i]

\* the dot product of calculateRawScore, up to and including position n
RECURSIVE DotProduct(_, _, _)
DotProduct(md, vector, n) ==
    IF n = 0 THEN md.intercept
    ELSE DotProduct(md, vector, n - 1)
         + OrZero(Lookup(vector, PairedName(md.feature_names, n))) * md.coefficients[n]

\* calculateRawScore(url)
calculateRawScore(md, u) ==
    Only({ DotProduct(md, extracted.features, Len(md.feature_names)) :
           extracted \in { extractFeatures(NewExtractor(md), md, u) } })

\* the features used by the model: acc[name] = features[name], every name
\* having been assigned by extractFeatures
RECURSIVE ModelFeatures(_, _, _)
ModelFeatures(names, vector, n) ==
    IF n = 0 THEN <<>>
    ELSE Only({ Assign(acc, names[n], OrZero(Lookup(vector, names[n]))) :
                acc \in { ModelFeatures(names, vector, n - 1) } })

\* PhishingDetector.predict(url) of a detector built from the metadata md
detectorPredict(md, u) ==
    Only({ [ threw |-> extracted.threw,
             isPhishing |-> raw > 0,
             score |-> raw,
             probability |-> sigmoid(raw),
             phishingProbability |-> calculatePhishingProbability(raw),
             features |-> ModelFeatures(md.feature_names, extracted.features,
                                        Len(md.feature_names)),
             warnings |-> extracted.warnings,
             domainParts |-> extracted.domainParts ] :
           extracted \in { extractFeatures(NewExtractor(md), md, u) },
           raw \in { calculateRawScore(md, u) } })

\* the pieces the urls handed to extractFeatures and predict are put together from
CallTokens ==
    { <<"a">>, <<"H">>, <<"a", ".", "a", ".">>, SchemeSeparator, <<"/">>, <<"?">>,
      <<"#">>, <<"@">>, <<":">> }

\* the urls handed to predict, and those handed to extractFeatures directly
CallUrls == TokenStrings(CallTokens, MaxCallTokens)
ExtractUrls == TokenStrings(CallTokens, MaxExtractTokens)

\* another url, for the calls made in between
OtherUrl == <<"a", "a", "/", "a">>

\* extractors[i].extractFeatures(u) is called and returns
ExtractFeatures(i, u) ==
    /\ Len(calls) < MaxCalls
    /\ calls' = Append(calls, [ instance |-> i, url |-> u,
                                result |-> extractFeatures(extractors[i], metadata, u) ])
    /\ extractors' = [extractors EXCEPT ![i] = FieldsAfterExtract(@, u)]
    /\ UNCHANGED <<fusionVars, combinedVars, acquireVars, parseVars, domainVars,
                   metadata, prediction, consentVars, extVars>>

\* new PhishingDetector().predict(url) is called and returns
Predict ==
    /\ prediction = {}
    /\ prediction' = { detectorPredict(metadata, url) }
    /\ UNCHANGED <<fusionVars, combinedVars, acquireVars, parseVars, domainVars,
                   metadata, extractors, calls, consentVars, extVars>>

NextExtract == \E i \in Instances, u \in { url, OtherUrl } : ExtractFeatures(i, u)

NextPredict == Predict

----------------------------------------------------------------------------
(* The cookie-consent detector inside analyzeDom.  The content tree is the  *)
(* signals the other detectors collect from it and whether it shows a       *)
(* visible consent button.  Times are in milliseconds.                      *)

MaxTicks == 8
MaxInspections == 2

\* const checkTimes = [1500, 3000, 5000]
checkTimes == { 1500, 3000, 5000 }

\* Date.now() - lastDetectionTime < 30000
RecentWindow == 30000

\* Date.now() when the module is loaded into the page
LoadTime == 2 * RecentWindow

\* the clock is observed once per longest delay
ClockStep == CHOOSE d \in checkTimes : \A e \in checkTimes : e <= d

ContentTree(signals, consentButton) ==
    [signals |-> signals, consentButton |-> consentButton]

NoTree == ContentTree(<<>>, FALSE)

\* the signal lists the detectors before the consent detector collect
OtherSignalLists ==
    { fs \in CollectedLists : \A i \in 1..Len(fs) : fs[i].name = OrdinaryNames[1] }

ContentTrees == { ContentTree(fs, b) : fs \in OtherSignalLists, b \in BOOLEAN }

\* true when a visible button of the tree carries consent wording
detectConsentElements(t) == t.consentButton

recentDetection(time, detectedAt) == time - detectedAt < RecentWindow

\* features.push({ name: "hasConsentPopup", ... })
extractCookieConsentFeatures(fs, t, time, lastResult, lastTime) ==
    LET hasConsentPopup ==
            detectConsentElements(t) \/ (recentDetection(time, lastTime) /\ lastResult)
    IN  Append(fs, DomFeature("hasConsentPopup", hasConsentPopup, R(85, 100),
                              IF hasConsentPopup THEN R(-1, 2) ELSE Zero))

\* analyzeDom() on the tree t at the given time
analyzeDom(t, time, lastResult, lastTime) ==
    LET collected == extractCookieConsentFeatures(t.signals, t, time, lastResult, lastTime)
    IN  [ tree |-> t,
          features |-> collected,
          suspiciousScore |-> calculateSuspiciousScore(collected) ]

\* time passes
Tick ==
    /\ now + ClockStep <= LoadTime + MaxTicks * ClockStep
    /\ now' = now + ClockStep
    /\ UNCHANGED <<tree, pendingChecks, lastDetectionResult, lastDetectionTime, inspections>>
    /\ UNCHANGED <<fusionVars, combinedVars, acquireVars, urlVars, extVars>>

\* the page shows or removes its consent popup
PageChanges ==
    /\ tree' = [tree EXCEPT !.consentButton = ~@]
    /\ UNCHANGED <<now, pendingChecks, lastDetectionResult, lastDetectionTime, inspections>>
    /\ UNCHANGED <<fusionVars, combinedVars, acquireVars, urlVars, extVars>>

\* the setTimeout callback registered with this delay runs
DelayedCheck(delay) ==
    /\ delay \in pendingChecks
    /\ now >= LoadTime + delay
    /\ pendingChecks' = pendingChecks \ { delay }
    /\ IF detectConsentElements(tree)
       THEN /\ lastDetectionResult' = TRUE
            /\ lastDetectionTime' = now
       ELSE UNCHANGED <<lastDetectionResult, lastDetectionTime>>
    /\ UNCHANGED <<tree, now, inspections>>
    /\ UNCHANGED <<fusionVars, combinedVars, acquireVars, urlVars, extVars>>

\* analyzeDom() is called and returns
InspectDom ==
    /\ Len(inspections) < MaxInspections
    /\ inspections' = Append(inspections,
                             analyzeDom(tree, now, lastDetectionResult, lastDetectionTime))
    /\ UNCHANGED <<tree, now, pendingChecks, lastDetectionResult, lastDetectionTime>>
    /\ UNCHANGED <<fusionVars, combinedVars, acquireVars, urlVars, extVars>>

NextConsent ==
    \/ Tick
    \/ PageChanges
    \/ \E delay \in checkTimes : DelayedCheck(delay)
    \/ InspectDom

----------------------------------------------------------------------------
(* The lookup tables of model_metadata.json.  A table is {} where the       *)
(* artifact has no such key and {its array} otherwise.                      *)

TableNames ==
    { "commonTlds", "suspiciousKeywords", "suspiciousExtensions", "dictionaryWords",
      "popularDomains" }

\* an artifact that has every table
FullTables ==
    [ commonTlds |-> { << <<"a">> >> },
      suspiciousKeywords |-> { << <<"a", ".", "a">> >> },
      suspiciousExtensions |-> { << <<".">>, <<"/">> >> },
      dictionaryWords |-> { << <<"a">>, <<"h">> >> },
      popularDomains |-> { << <<"a", ".", "a">> >> } ]

NoTables == [t \in TableNames |-> {}]

\* the artifacts that lack some of the tables
Artifacts ==
    { [t \in TableNames |-> IF t \in present THEN FullTables[t] ELSE {}] :
          present \in SUBSET TableNames }

\* the features that look a table up, in feature_names order, with their table
TableFeatureNames ==
    << "is_common_tld", "keyword_count", "has_suspicious_ext",
       "is_domain_in_dictionary", "is_popular_domain" >>

TableOf(featureName) ==
    CASE featureName = "is_common_tld" -> "commonTlds"
      [] featureName = "keyword_count" -> "suspiciousKeywords"
      [] featureName = "has_suspicious_ext" -> "suspiciousExtensions"
      [] featureName = "is_domain_in_dictionary" -> "dictionaryWords"
      [] featureName = "is_popular_domain" -> "popularDomains"

\* new Set(x): empty for undefined
NewSet(table) == UNION { { xs[i] : i \in 1..Len(xs) } : xs \in table }

\* constructor(): sets are built from five tables, two arrays are stored as found
ConstructTables(a) ==
    [ commonTlds |-> NewSet(a.commonTlds),
      suspiciousKeywords |-> a.suspiciousKeywords,
      suspiciousExtensions |-> a.suspiciousExtensions,
      dictionaryWords |-> NewSet(a.dictionaryWords),
      popularDomains |-> NewSet(a.popularDomains) ]

EndsWith(str, suffix) ==
    /\ Len(suffix) <= Len(str)
    /\ SubSeq(str, Len(str) - Len(suffix) + 1, Len(str)) = suffix

\* calculateFeature for the features that look a table up; a method call on
\* undefined throws
tableFeature(fields, featureName, u, parts) ==
    LET contains(kw) == Includes(ToLowerCase(u), kw)
        endsWith(ext) == EndsWith(ToLowerCase(u), ext)
        returns(v) == [threw |-> FALSE, value |-> v]
        throws == [threw |-> TRUE, value |-> 0]
        flag(b) == returns(IF b THEN 1 ELSE 0)
    IN  CASE featureName = "keyword_count" ->
                 IF fields.suspiciousKeywords = {} THEN throws
                 ELSE returns(CountWhere(Only(fields.suspiciousKeywords), contains))
          [] featureName = "has_suspicious_ext" ->
                 IF fields.suspiciousExtensions = {} THEN throws
                 ELSE flag(CountWhere(Only(fields.suspiciousExtensions), endsWith) > 0)
          [] featureName = "is_domain_in_dictionary" ->
                 flag(ToLowerCase(parts.domain) \in fields.dictionaryWords)
          [] featureName = "is_common_tld" ->
                 flag(ToLowerCase(parts.tld) \in fields.commonTlds)
          [] featureName = "is_popular_domain" ->
                 IF parts.domain = <<>> \/ parts.tld = <<>> THEN returns(0)
                 ELSE flag(ToLowerCase(parts.domain \o <<".">> \o parts.tld)
                               \in fields.popularDomains)

\* the loop over feature_names, up to and including the n-th name
RECURSIVE TableLoop(_, _, _, _, _)
TableLoop(fields, names, n, u, parts) ==
    IF n = 0 THEN [threw |-> FALSE, features |-> <<>>]
    ELSE Only({ IF before.threw THEN before
                ELSE Only({ IF f.threw THEN [threw |-> TRUE, features |-> <<>>]
                            ELSE [ threw |-> FALSE,
                                   features |-> Assign(before.features, names[n], f.value) ] :
                            f \in { tableFeature(fields, names[n], u, parts) } }) :
                before \in { TableLoop(fields, names, n - 1, u, parts) } })

\* extractFeatures(url) over the table features
extractTableFeatures(fields, u0) ==
    Only(UNION { UNION { { IF parsed.threw THEN [threw |-> TRUE, features |-> <<>>]
                           ELSE TableLoop(fields, TableFeatureNames,
                                          Len(TableFeatureNames), u, parts) :
                           parts \in { IF parsed.threw THEN DomainParts(<<>>, <<>>, <<>>)
                                       ELSE extractDomainParts(parsed.hostname) } } :
                         parsed \in { parseUrl(u) } } :
                 u \in { normalizeUrl(u0) } })

\* new URLFeatureExtractor()
ConstructExtractor ==
    /\ tableFields = {}
    /\ tableFields' = { ConstructTables(artifact) }
    /\ UNCHANGED <<artifact, tableResult>>
    /\ UNCHANGED besidesTables

\* extractFeatures(url) is called and returns or throws
ExtractTableFeatures ==
    /\ tableFields /= {}
    /\ tableResult = {}
    /\ tableResult' = { extractTableFeatures(Only(tableFields), url) }
    /\ UNCHANGED <<artifact, tableFields>>
    /\ UNCHANGED besidesTables

NextTables == ConstructExtractor \/ ExtractTableFeatures

----------------------------------------------------------------------------
(* analyzeDom's run through its six detectors.  A signal is its name and    *)
(* its value; which checks of a detector fire is the page's doing.         *)

formChecks ==
    << "hasAuthenticationForm", "externalFormSubmission", "collectsFinancialData",
       "collectsIdentityData", "collectsPersonalData", "hasSuspiciousFormImplementation",
       "personalInfoDensity", "excessiveInlineStyling", "hasSuspiciousPasswordInput",
       "hasFakeInputs", "hasSuspiciousOverlay", "suspiciousNoScriptForm",
       "excessiveBase64Images" >>

linkChecks == << "linkMismatchCount", "anchorWithIPAddress", "externalLinkCount" >>

contentChecks ==
    << "iframeSrcCount", "blankLinksCount", "hiddenElementsCount", "faviconExists",
       "faviconQuality", "titleMatchesDomain", "titleAvailable", "fraudTextScore" >>

securityChecks == << "maskedLinks", "suspiciousRedirects" >>

\* the fourth push carries the name of the third
invisibleChecks_Repeated ==
    << "hasSuspiciousInvisibleCredentialInputs", "hasOverlappingInputTraps",
       "hasSuspiciousTransparentOverlays", "hasSuspiciousTransparentOverlays" >>

invisibleChecks ==
    << "hasSuspiciousInvisibleCredentialInputs", "hasOverlappingInputTraps",
       "hasSuspiciousTransparentOverlays", "hiddenInputsSuspiciousRatio" >>

consentChecks == << "hasConsentPopup" >>

\* the detectors in the order analyzeDom calls them
Detectors ==
    << formChecks, linkChecks, contentChecks, securityChecks, invisibleChecks,
       consentChecks >>

Returned == Len(Detectors) + 1

\* what a page can make of a detector's checks: none fires or one fires
FiredSets(checks) == { {} } \cup { { checks[i] } : i \in 1..Len(checks) }

\* the pushes of one detector: one signal per check, in order
Pushes(checks, fired) ==
    [i \in 1..Len(checks) |-> [name |-> checks[i], value |-> checks[i] \in fired]]

\* the features of the result analyzeDom returns from its catch block
AnalysisErrorFeatures == << [name |-> "analysisError", value |-> TRUE] >>

\* the next detector runs to its end
RunDetector(fired) ==
    /\ detector \in 1..Len(Detectors)
    /\ signalList' = signalList \o Pushes(Detectors[detector], fired)
    /\ detector' = detector + 1
    /\ UNCHANGED inspected
    /\ UNCHANGED besidesInspect

\* the next detector throws: analyzeDom returns its error result
DetectorThrows ==
    /\ detector \in 1..Len(Detectors)
    /\ detector' = 0
    /\ inspected' = { AnalysisErrorFeatures }
    /\ UNCHANGED signalList
    /\ UNCHANGED besidesInspect

\* the detectors are through: analyzeDom returns its result
ReturnResult ==
    /\ detector = Returned
    /\ detector' = 0
    /\ inspected' = { signalList }
    /\ UNCHANGED signalList
    /\ UNCHANGED besidesInspect

NextInspect ==
    \/ \E fired \in FiredSets(Detectors[IF detector \in 1..Len(Detectors)
                                        THEN detector ELSE 1]) : RunDetector(fired)
    \/ DetectorThrows
    \/ ReturnResult

----------------------------------------------------------------------------
(* The hidden-input analysis of extractInvisibleFeatures.  An input is the  *)
(* text of its type attribute, the classes its name, id and value fall in   *)
(* under the detector's patterns, and whether its form holds a password     *)
(* field or a submit button.                                                *)

MaxPlain == 10
MaxEach == 1

HiddenInput(type, name, id, value, inForm) ==
    [type |-> type, name |-> name, id |-> id, value |-> value, inForm |-> inForm]

\* name and id: "none" is the empty string, "allowed" matches legitimatePatterns,
\* "sensitive" matches suspiciousPatterns only, "plain" matches neither.
\* value: "empty", "flag" (a boolean flag), "card" (a card or CVV digit run), "plain".
\* input[type="hidden"] matches the type attribute in any letter case
InputKinds ==
    { HiddenInput("hidden", "plain", "none", "empty", FALSE),
      HiddenInput("hidden", "sensitive", "none", "empty", FALSE),
      HiddenInput("Hidden", "sensitive", "none", "empty", FALSE),
      HiddenInput("Hidden", "none", "sensitive", "empty", FALSE),
      HiddenInput("Hidden", "allowed", "sensitive", "empty", FALSE),
      HiddenInput("Hidden", "plain", "none", "card", FALSE),
      HiddenInput("Hidden", "sensitive", "none", "empty", TRUE) }

PlainKind == HiddenInput("hidden", "plain", "none", "empty", FALSE)

\* the pages: up to MaxPlain plain inputs and up to MaxEach of every other kind
HiddenPages ==
    { [k \in InputKinds |-> IF k = PlainKind THEN n ELSE others[k]] :
          n \in 0..MaxPlain, others \in [InputKinds \ { PlainKind } -> 0..MaxEach] }

\* the name, id, value and form tests of isLegitimateHiddenInput
AllowListed(input) ==
    \/ input.name = "allowed"
    \/ input.id = "allowed"
    \/ input.value = "flag"
    \/ input.inForm

\* if (type === 'hidden') return true, then the allow-list tests
isLegitimateHiddenInput(input) == input.type = "hidden" \/ AllowListed(input)

MatchesSuspicious(input) ==
    \/ input.name = "sensitive"
    \/ input.id = "sensitive"
    \/ input.value = "card"

isSuspiciousHiddenInput(input) ==
    IF isLegitimateHiddenInput(input) THEN FALSE ELSE MatchesSuspicious(input)

\* the sum of page[k] over the kinds k of S
RECURSIVE CountKinds(_, _)
CountKinds(page, S) ==
    IF S = {} THEN 0
    ELSE LET k == CHOOSE x \in S : TRUE
         IN  page[k] + CountKinds(page, S \ { k })

analyzeHiddenInputs(page) ==
    LET total == CountKinds(page, InputKinds)
        named == { k \in InputKinds : k.name /= "none" }
        suspicious == CountKinds(page, { k \in named : isSuspiciousHiddenInput(k) })
        legitimate == CountKinds(page, { k \in named : ~isSuspiciousHiddenInput(k) })
    IN  [ total |-> total,
          suspicious |-> IF total = 0 THEN 0 ELSE suspicious,
          legitimate |-> IF total = 0 THEN 0 ELSE legitimate,
          suspiciousRatio |-> IF total > 0 THEN R(suspicious, total) ELSE Zero ]

calculateHiddenInputImpact(analysis) ==
    IF analysis.total = 0 THEN R(-2, 10)
    ELSE IF analysis.total >= 10 /\ analysis.suspicious = 0 THEN R(-4, 10)
    ELSE IF analysis.total < 10 /\ analysis.suspicious = 0 THEN R(-2, 10)
    ELSE IF RGe(analysis.suspiciousRatio, Half) THEN R(8, 10)
    ELSE IF RGe(analysis.suspiciousRatio, R(1, 4)) THEN R(5, 10)
    ELSE IF RGt(analysis.suspiciousRatio, Zero) THEN R(3, 10)
    ELSE R(1, 10)

\* extractInvisibleFeatures pushes hiddenInputsSuspiciousRatio
PushHiddenInputSignal ==
    /\ hiddenSignal = {}
    /\ hiddenSignal' =
           { Only({ [ analysis |-> analysis,
                      feature |-> DomFeature("hiddenInputsSuspiciousRatio",
                                             analysis.suspiciousRatio, R(7, 10),
                                             calculateHiddenInputImpact(analysis)) ] :
                    analysis \in { analyzeHiddenInputs(hiddenInputs) } }) }
    /\ UNCHANGED hiddenInputs
    /\ UNCHANGED besidesHidden

NextHidden == PushHiddenInputSignal

----------------------------------------------------------------------------
(* analyzeDataCollection: the financial-data flag.  An input element is     *)
(* its type, maxlength and autocomplete attributes, whether its placeholder *)
(* holds an MM/YY pattern, and whether its name, id or placeholder holds a  *)
(* financial keyword.                                                       *)

MaxInputs == 2

\* how often the clock advances while getDomFeaturesForTab is observed
MaxElapses == 3

\* analyses that are in flight at a time
MaxInFlight == 2

\* how often the service worker's clock advances
MaxClockTicks == 1

InputElement(type, maxlength, autocomplete, expiryPlaceholder, financialKeyword) ==
    [ type |-> type, maxlength |-> maxlength, autocomplete |-> autocomplete,
      expiryPlaceholder |-> expiryPlaceholder, financialKeyword |-> financialKeyword ]

\* the input elements pages are made of
InputElements ==
    { InputElement("text", "", "", FALSE, FALSE),
      InputElement("password", "", "", FALSE, FALSE),
      InputElement("text", "16", "", FALSE, FALSE),
      InputElement("text", "3", "", FALSE, FALSE),
      InputElement("text", "", "", TRUE, FALSE),
      InputElement("text", "19", "", TRUE, TRUE),
      InputElement("text", "", "", FALSE, TRUE),
      InputElement("text", "16", "", FALSE, TRUE),
      InputElement("text", "", "cc-number", FALSE, FALSE),
      InputElement("creditcard", "", "", FALSE, FALSE) }

RECURSIVE InputLists(_)
InputLists(n) ==
    IF n = 0 THEN { <<>> }
    ELSE InputLists(n - 1)
         \cup { Append(xs, e) : xs \in { l \in InputLists(n - 1) : Len(l) = n - 1 },
                                e \in InputElements }

FormPages ==
    { [inputs |-> xs, trusted |-> t, legitimateForm |-> l] :
          xs \in InputLists(MaxInputs), t \in BOOLEAN, l \in BOOLEAN }

NoFormPage == [inputs |-> <<>>, trusted |-> FALSE, legitimateForm |-> FALSE]

\* input[autocomplete^="cc-"]
CcAutocomplete(e) == e.autocomplete \in { "cc-number", "cc-csc", "cc-exp", "cc-name" }

\* input[maxlength="15"], input[maxlength="16"], input[maxlength="19"]
PossibleCC(e) == e.maxlength \in { "15", "16", "19" }

\* input[maxlength="3"], input[maxlength="4"]
PossibleCVV(e) == e.maxlength \in { "3", "4" }

\* input[autocomplete="cc-number"], input[autocomplete="cc-csc"], input[autocomplete="cc-exp"]
CcAttribute(e) == e.autocomplete \in { "cc-number", "cc-csc", "cc-exp" }

Some(xs, Test(_)) == \E i \in 1..Len(xs) : Test(xs[i])

hasFinancialInputs(xs) ==
    LET expiry(e) == e.expiryPlaceholder
    IN  /\ Some(xs, PossibleCC)
        /\ \/ Some(xs, PossibleCVV)
           \/ Some(xs, expiry)
           \/ Some(xs, CcAttribute)

\* dataTypes.financial after the loop has handled the first n inputs
RECURSIVE FinancialAfter(_, _)
FinancialAfter(xs, n) ==
    IF n = 0 THEN Some(xs, CcAutocomplete)
    ELSE LET e == xs[n]
             before == FinancialAfter(xs, n - 1)
             explicit == e.type = "creditcard" \/ CcAutocomplete(e)
             byKeyword == /\ e.financialKeyword \/ explicit
                          /\ hasFinancialInputs(xs) \/ explicit
             byLength == /\ e.type = "text"
                         /\ e.maxlength \in { "16", "19" }
                         /\ hasFinancialInputs(xs)
         IN  before \/ byKeyword \/ byLength

\* input[type="password"]; no modelled input carries a credential keyword
HasPasswordInput(xs) == LET password(e) == e.type = "password" IN Some(xs, password)

\* the financial flag analyzeDataCollection returns for a page
analyzeDataCollection(page) ==
    LET xs == page.inputs
        credentials == HasPasswordInput(xs)
        looped == FinancialAfter(xs, Len(xs))
        afterReputation ==
            IF page.trusted /\ credentials /\ ~hasFinancialInputs(xs) THEN FALSE ELSE looped
        afterForms ==
            IF page.legitimateForm /\ credentials /\ ~hasFinancialInputs(xs)
            THEN FALSE ELSE afterReputation
    IN  [ financial |-> afterForms, credentials |-> credentials ]

\* analyzeDataCollection() is called and returns
AnalyzeDataCollection ==
    /\ dataCollection = {}
    /\ dataCollection' = { analyzeDataCollection(formPage) }
    /\ UNCHANGED formPage
    /\ UNCHANGED besidesForm

NextForm == AnalyzeDataCollection

----------------------------------------------------------------------------
(* getDomFeaturesForTab: the promise it returns, its timer and the callback *)
(* of chrome.tabs.sendMessage.  Time is counted in milliseconds from the    *)
(* call.  A timer that is due fires before more time passes.                *)

\* setTimeout(..., 8000)
AcquireTimeout == 8000

\* the clock is observed twice per timeout
ElapseStep == AcquireTimeout \div 2

\* where chrome.tabs.sendMessage stands, and what its callback was handed
SendState(phase, handed) == [phase |-> phase, handed |-> handed]

\* what the messaging channel can hand to the callback as response.domFeatures
Deliveries == DomFeaturesInputs \cup { Malformed }

\* the promise is resolved anew by every call
resolve_Overwrite(promise, value) == { value }

\* resolve(value) of new Promise((resolve) => ...): the first call settles it
resolve(promise, value) == IF promise = {} THEN { value } ELSE promise

\* the value the callback of sendMessage passes to resolve
CallbackValue(lastError, delivered) ==
    IF lastError THEN ErrorIndicator("communicationError")
    ELSE IF delivered.kind \in { "undefined", "null" }
    THEN ErrorIndicator("invalidResponse")
    ELSE IF delivered.kind = "noFeaturesArray"
    THEN ErrorIndicator("invalidStructure")
    ELSE delivered

\* getDomFeaturesForTab(tabId) is called: the executor arms the timer and
\* calls chrome.tabs.sendMessage, which may throw
GetDomFeaturesForTab(throws) ==
    /\ sendState.phase = "idle"
    /\ timeoutId' = "armed"
    /\ IF throws
       THEN /\ settled' = resolve(settled, ErrorIndicator("exceptionError"))
            /\ resolveCalls' = resolveCalls + 1
            /\ sendState' = SendState("threw", {})
       ELSE /\ sendState' = SendState("sent", {})
            /\ UNCHANGED <<settled, resolveCalls>>
    /\ UNCHANGED <<elapsed, besidesSettle>>

\* the 8 s timer fires
TimerFires ==
    /\ timeoutId = "armed"
    /\ elapsed >= AcquireTimeout
    /\ timeoutId' = "fired"
    /\ settled' = resolve(settled, ErrorIndicator("timeoutError"))
    /\ resolveCalls' = resolveCalls + 1
    /\ UNCHANGED <<sendState, elapsed, besidesSettle>>

\* the callback of chrome.tabs.sendMessage runs
SendMessageCallback(lastError, delivered) ==
    /\ sendState.phase = "sent"
    /\ sendState' = SendState("calledBack",
                              { [lastError |-> lastError, delivered |-> delivered] })
    /\ timeoutId' = IF timeoutId = "armed" THEN "cleared" ELSE timeoutId
    /\ settled' = resolve(settled, CallbackValue(lastError, delivered))
    /\ resolveCalls' = resolveCalls + 1
    /\ UNCHANGED <<elapsed, besidesSettle>>

\* time passes
Elapse ==
    /\ sendState.phase # "idle"
    /\ elapsed < MaxElapses * ElapseStep
    /\ ~(timeoutId = "armed" /\ elapsed >= AcquireTimeout)
    /\ elapsed' = elapsed + ElapseStep
    /\ UNCHANGED <<settled, timeoutId, sendState, resolveCalls, besidesSettle>>

NextSettle ==
    \/ \E throws \in BOOLEAN : GetDomFeaturesForTab(throws)
    \/ TimerFires
    \/ \E lastError \in BOOLEAN, d \in Deliveries : SendMessageCallback(lastError, d)
    \/ Elapse

----------------------------------------------------------------------------
(* The service worker's bookkeeping per tab: the tabs.onUpdated and         *)
(* tabs.onRemoved listeners, the pageReady and analyzeUrlManually handlers  *)
(* and analyzeTabUrl.  A handler runs to its first await in one step; what  *)
(* follows the await is the step of the analysis that settles.  A timer     *)
(* gives its delay as a lower bound only, so the clock may advance while an *)
(* analysis awaits its content signals.                                     *)

\* the maps are keyed by the tab id and no handler reads or writes the entry
\* of a tab other than its own: one tab is followed
TabIds == { 1 }

\* timeSinceStart > 10000
StaleAfter == 10000

\* timeSinceAnalysis < 5 * 60 * 1000
ReuseWindow == 5 * 60 * 1000

\* the clock is observed once per reuse window, the longer of the two delays
TabClockStep == ReuseWindow

TabUrl(scheme, page) == [scheme |-> scheme, page |-> page]
TabUrls == { TabUrl("http", "a"), TabUrl("https", "b"), TabUrl("chrome", "newtab") }

\* url.startsWith("http")
StartsWithHttp(u) == u.scheme \in { "http", "https" }

BrowserTab(status, u, complete) == [status |-> status, url |-> u, complete |-> complete]

\* Map.has, Map.set and Map.delete on a map keyed by tab id
MapHas(map, t) == map[t] # {}
MapSet(map, t, v) == [map EXCEPT ![t] = { v }]
MapDelete(map, t) == [map EXCEPT ![t] = {}]

\* the entry analyzeTabUrl and the pageReady handler store for a tab
Entry(u, result, timestamp) == [url |-> u, result |-> result, timestamp |-> timestamp]

\* an analysis that has started and not settled
Analysis(t, u, origin, stage) ==
    [tab |-> t, url |-> u, origin |-> origin, stage |-> stage]

\* the analyses that can be in flight
Analyses ==
    { Analysis(t, u, origin, "acquiring") :
          t \in TabIds, u \in { v \in TabUrls : StartsWithHttp(v) },
          origin \in { "onUpdated", "pageReady", "manual" } }
    \cup { Analysis(t, u, "messaging", "notifying") :
               t \in TabIds, u \in { v \in TabUrls : StartsWithHttp(v) } }

\* how many analyses of the tab are in flight
InFlightOf(t) ==
    BagCardinality([a \in { b \in BagToSet(inFlight) : b.tab = t } |-> inFlight[a]])

\* analyzeTabUrl(tabId, url) is called: it returns at once for a url that is
\* not http(s), and awaits getDomFeaturesForTab otherwise
StartAnalysis(t, u, origin) ==
    IF StartsWithHttp(u)
    THEN /\ BagCardinality(inFlight) < MaxInFlight
         /\ inFlight' = inFlight (+) SetToBag({ Analysis(t, u, origin, "acquiring") })
    ELSE UNCHANGED inFlight

\* the promise of analyzeTabUrl is dropped with its rejection unhandled
AfterAnalysis_NoCatch(pending, a, threw) ==
    IF a.origin = "manual" \/ threw THEN pending ELSE MapDelete(pending, a.tab)

\* analyzeTabUrl(...).then(...).catch(...) of the caller that started it
AfterAnalysis(pending, a, threw) ==
    IF a.origin = "manual" THEN pending ELSE MapDelete(pending, a.tab)

\* the tab starts loading a document
Navigate(t, u) ==
    /\ browserTabs[t].status = "open"
    /\ browserTabs' = [browserTabs EXCEPT ![t] = BrowserTab("open", { u }, FALSE)]
    /\ UNCHANGED <<analyzedTabsData, pendingAnalyses, inFlight, clock, besidesTabs>>

\* chrome.tabs.onUpdated with changeInfo.status "complete"
TabUpdated(t) ==
    /\ browserTabs[t].status = "open"
    /\ browserTabs[t].url # {}
    /\ ~browserTabs[t].complete
    /\ browserTabs' = [browserTabs EXCEPT ![t].complete = TRUE]
    /\ \E u \in browserTabs[t].url :
           IF ~StartsWithHttp(u)
           THEN UNCHANGED <<pendingAnalyses, inFlight>>
           ELSE IF MapHas(pendingAnalyses, t)
                   /\ \A startTime \in pendingAnalyses[t] : ~(clock - startTime > StaleAfter)
           THEN UNCHANGED <<pendingAnalyses, inFlight>>
           ELSE /\ pendingAnalyses' = MapSet(pendingAnalyses, t, clock)
                /\ StartAnalysis(t, u, "onUpdated")
    /\ UNCHANGED <<analyzedTabsData, clock, besidesTabs>>

\* chrome.tabs.onRemoved
TabRemoved(t) ==
    /\ browserTabs[t].status = "open"
    /\ browserTabs' = [browserTabs EXCEPT ![t] = BrowserTab("removed", {}, FALSE)]
    /\ analyzedTabsData' = MapDelete(analyzedTabsData, t)
    /\ pendingAnalyses' = MapDelete(pendingAnalyses, t)
    /\ UNCHANGED <<inFlight, clock, besidesTabs>>

\* handlePageReady: the tab's content script sent pageReady with its url
PageReady(t) ==
    /\ browserTabs[t].status = "open"
    /\ \E u \in browserTabs[t].url :
           /\ StartsWithHttp(u)
           /\ IF MapHas(pendingAnalyses, t)
              THEN UNCHANGED <<pendingAnalyses, inFlight>>
              ELSE /\ pendingAnalyses' = MapSet(pendingAnalyses, t, clock)
                   /\ StartAnalysis(t, u, "pageReady")
    /\ UNCHANGED <<browserTabs, analyzedTabsData, clock, besidesTabs>>

\* the messaging handler of pageReady: it analyses the signals the message
\* carries, stores the verdict and awaits the delivery of analysisCompleted
MessagingPageReady(t, throws) ==
    /\ browserTabs[t].status = "open"
    /\ \E u \in browserTabs[t].url :
           /\ StartsWithHttp(u)
           /\ IF MapHas(pendingAnalyses, t)
              THEN UNCHANGED <<analyzedTabsData, pendingAnalyses, inFlight>>
              ELSE IF \E e \in analyzedTabsData[t] :
                          e.url = u /\ clock - e.timestamp < ReuseWindow
              THEN UNCHANGED <<analyzedTabsData, pendingAnalyses, inFlight>>
              ELSE IF throws
              THEN UNCHANGED <<analyzedTabsData, pendingAnalyses, inFlight>>
              ELSE /\ BagCardinality(inFlight) < MaxInFlight
                   /\ pendingAnalyses' = MapSet(pendingAnalyses, t, clock)
                   /\ analyzedTabsData' = MapSet(analyzedTabsData, t, Entry(u, "verdict", clock))
                   /\ inFlight' = inFlight
                                  (+) SetToBag({ Analysis(t, u, "messaging", "notifying") })
    /\ UNCHANGED <<browserTabs, clock, besidesTabs>>

\* handleAnalyzeUrlManually: the popup asks for an analysis of a url
AnalyzeUrlManually(t, u) ==
    /\ browserTabs[t].status = "open"
    /\ pendingAnalyses' = MapDelete(pendingAnalyses, t)
    /\ StartAnalysis(t, u, "manual")
    /\ UNCHANGED <<browserTabs, analyzedTabsData, clock, besidesTabs>>

\* analyzeTabUrl after its await: analyzeForPhishing returns or throws, the
\* entry is stored, and the caller's then or catch runs
AnalysisSettles(a, threw) ==
    /\ BagIn(a, inFlight)
    /\ a.stage = "acquiring"
    /\ analyzedTabsData' =
           MapSet(analyzedTabsData, a.tab,
                  Entry(a.url, IF threw THEN "fallback" ELSE "verdict", clock))
    /\ pendingAnalyses' = AfterAnalysis(pendingAnalyses, a, threw)
    /\ inFlight' = inFlight (-) SetToBag({ a })
    /\ UNCHANGED <<browserTabs, clock, besidesTabs>>

\* the messaging handler after its await of chrome.tabs.sendMessage
NotificationSettles(a) ==
    /\ BagIn(a, inFlight)
    /\ a.stage = "notifying"
    /\ pendingAnalyses' = MapDelete(pendingAnalyses, a.tab)
    /\ inFlight' = inFlight (-) SetToBag({ a })
    /\ UNCHANGED <<browserTabs, analyzedTabsData, clock, besidesTabs>>

\* Date.now() advances
ClockTick ==
    /\ clock < MaxClockTicks * TabClockStep
    /\ clock' = clock + TabClockStep
    /\ UNCHANGED <<browserTabs, analyzedTabsData, pendingAnalyses, inFlight, besidesTabs>>

\* an analysis of this kind settles
Settles(a) ==
    \/ \E threw \in BOOLEAN : AnalysisSettles(a, threw)
    \/ NotificationSettles(a)

NextTabs ==
    \/ \E t \in TabIds, u \in TabUrls : Navigate(t, u)
    \/ \E t \in TabIds : TabUpdated(t)
    \/ \E t \in TabIds : TabRemoved(t)
    \/ \E t \in TabIds : PageReady(t)
    \/ \E t \in TabIds, throws \in BOOLEAN : MessagingPageReady(t, throws)
    \/ \E t \in TabIds, u \in TabUrls : AnalyzeUrlManually(t, u)
    \/ \E a \in Analyses, threw \in BOOLEAN : AnalysisSettles(a, threw)
    \/ \E a \in Analyses : NotificationSettles(a)
    \/ ClockTick

----------------------------------------------------------------------------
(* Specifications *)

\* no content-signal acquisition is under way
IdleAcquire == response = {} /\ acquisition = "idle"

\* no method of the url feature extractor has been called
IdleParse == url = <<>> /\ parsedUrl = {}
IdleDomain == hostnameArg = NoHostname /\ domainParts = {}
IdleCalls ==
    /\ metadata = NoMetadata
    /\ extractors = <<>>
    /\ calls = <<>>
    /\ prediction = {}
IdleUrl == IdleParse /\ IdleDomain /\ IdleCalls

\* the consent detector's module is not loaded
IdleConsent ==
    /\ tree = NoTree
    /\ now = 0
    /\ pendingChecks = {}
    /\ lastDetectionResult = FALSE
    /\ lastDetectionTime = 0
    /\ inspections = <<>>

\* no extractor has been constructed over the lookup tables
IdleTables == artifact = NoTables /\ tableFields = {} /\ tableResult = {}

\* no call of analyzeDom is running through its detectors
IdleInspect == signalList = <<>> /\ detector = 0 /\ inspected = {}

\* no page is under hidden-input analysis
IdleHidden == hiddenInputs = [k \in InputKinds |-> 0] /\ hiddenSignal = {}

\* no page is under data-collection analysis
IdleForm == formPage = NoFormPage /\ dataCollection = {}

\* getDomFeaturesForTab has not been called
IdleSettle ==
    /\ settled = {}
    /\ timeoutId = "none"
    /\ sendState = SendState("idle", {})
    /\ elapsed = 0
    /\ resolveCalls = 0

\* the service worker tracks no tab
IdleTabs ==
    /\ browserTabs = [t \in {} |-> {}]
    /\ analyzedTabsData = [t \in {} |-> {}]
    /\ pendingAnalyses = [t \in {} |-> {}]
    /\ inFlight = EmptyBag
    /\ clock = 0

IdleBackground == IdleSettle /\ IdleTabs

\* none of the parts modelled after the cookie-consent detector has started
IdleExt == IdleTables /\ IdleInspect /\ IdleHidden /\ IdleForm /\ IdleBackground

\* no call of analyzeForPhishing is under way
IdleCombined == rawScore = 0 /\ domFeatures = Undefined /\ verdict = {}

\* no signal list is being collected
IdleFusion == features = <<>> /\ fusion = {}

\* the parts modelled up to the cookie-consent detector are idle
IdleCore == IdleFusion /\ IdleCombined /\ IdleAcquire /\ IdleUrl /\ IdleConsent

\* analyzeDom starts with an empty list
InitFusion ==
    /\ IdleConsent
    /\ IdleExt
    /\ features = <<>>
    /\ fusion = {}
    /\ rawScore = 0
    /\ domFeatures = Undefined
    /\ verdict = {}
    /\ IdleAcquire
    /\ IdleUrl

\* analyzeForPhishing is entered with a url (its raw score) and a domFeatures argument
InitCombined ==
    /\ IdleConsent
    /\ IdleExt
    /\ features = <<>>
    /\ fusion = {}
    /\ rawScore \in RawScores
    /\ domFeatures \in DomFeaturesInputs
    /\ verdict = {}
    /\ IdleAcquire
    /\ IdleUrl

SpecFusion == InitFusion /\ [][NextFusion]_vars

SpecCombined == InitCombined /\ [][NextCombined]_vars

\* analyzeTabUrl(tabId, url) has just asked the content script for its signals
InitAcquire ==
    /\ IdleConsent
    /\ IdleExt
    /\ IdleFusion
    /\ rawScore \in RawScores
    /\ domFeatures = Null
    /\ verdict = {}
    /\ response = {}
    /\ acquisition = "requested"
    /\ IdleUrl

SpecAcquire == InitAcquire /\ [][NextAcquire]_vars

\* parseUrl is entered with a string
InitParse ==
    /\ IdleConsent
    /\ IdleExt
    /\ IdleFusion
    /\ IdleCombined
    /\ IdleAcquire
    /\ url \in Urls
    /\ parsedUrl = {}
    /\ IdleDomain
    /\ IdleCalls

SpecParse == InitParse /\ [][NextParse]_vars

\* extractDomainParts is entered with a hostname
InitDomain ==
    /\ IdleConsent
    /\ IdleExt
    /\ IdleFusion
    /\ IdleCombined
    /\ IdleAcquire
    /\ IdleParse
    /\ hostnameArg \in Hostnames
    /\ domainParts = {}
    /\ IdleCalls

SpecDomain == InitDomain /\ [][NextDomain]_vars

\* the metadata is loaded, the extractors are constructed, a url is at hand
InitCalls(urls) ==
    /\ IdleConsent
    /\ IdleExt
    /\ IdleFusion
    /\ IdleCombined
    /\ IdleAcquire
    /\ IdleDomain
    /\ url \in urls
    /\ parsedUrl = {}
    /\ metadata \in Models
    /\ extractors = [i \in Instances |-> NewExtractor(metadata)]
    /\ calls = <<>>
    /\ prediction = {}

InitExtract == InitCalls(ExtractUrls)

InitPredict == InitCalls(CallUrls)

\* the content script has just been loaded into a page
InitConsent ==
    /\ IdleExt
    /\ IdleFusion
    /\ IdleCombined
    /\ IdleAcquire
    /\ IdleUrl
    /\ tree \in ContentTrees
    /\ now = LoadTime
    /\ pendingChecks = checkTimes
    /\ lastDetectionResult = FALSE
    /\ lastDetectionTime = 0
    /\ inspections = <<>>

SpecConsent == InitConsent /\ [][NextConsent]_vars

\* a metadata file is loaded and a url is at hand
InitTables ==
    /\ IdleFusion
    /\ IdleCombined
    /\ IdleAcquire
    /\ IdleDomain
    /\ IdleCalls
    /\ IdleConsent
    /\ IdleBackground
    /\ url \in CallUrls
    /\ parsedUrl = {}
    /\ IdleInspect
    /\ IdleHidden
    /\ IdleForm
    /\ artifact \in Artifacts
    /\ tableFields = {}
    /\ tableResult = {}

SpecTables == InitTables /\ [][NextTables]_vars

\* analyzeDom has been entered and its features array is empty
InitInspect ==
    /\ IdleCore
    /\ IdleTables
    /\ IdleHidden
    /\ IdleForm
    /\ IdleBackground
    /\ signalList = <<>>
    /\ detector = 1
    /\ inspected = {}

SpecInspect == InitInspect /\ [][NextInspect]_vars

\* extractInvisibleFeatures is about to analyse the hidden inputs of a page
InitHidden ==
    /\ IdleCore
    /\ IdleTables
    /\ IdleInspect
    /\ IdleForm
    /\ IdleBackground
    /\ hiddenInputs \in HiddenPages
    /\ hiddenSignal = {}

SpecHidden == InitHidden /\ [][NextHidden]_vars

\* extractFormFeatures is about to analyse the inputs of a page
InitForm ==
    /\ IdleCore
    /\ IdleTables
    /\ IdleInspect
    /\ IdleHidden
    /\ IdleBackground
    /\ formPage \in FormPages
    /\ dataCollection = {}

SpecForm == InitForm /\ [][NextForm]_vars

\* getDomFeaturesForTab is about to be called
InitSettle ==
    /\ IdleCore
    /\ IdleTables
    /\ IdleInspect
    /\ IdleHidden
    /\ IdleForm
    /\ IdleTabs
    /\ IdleSettle

SpecSettle == InitSettle /\ [][NextSettle]_vars

\* the service worker has started and the browser's tabs are blank
InitTabs ==
    /\ IdleCore
    /\ IdleTables
    /\ IdleInspect
    /\ IdleHidden
    /\ IdleForm
    /\ IdleSettle
    /\ browserTabs = [t \in TabIds |-> BrowserTab("open", {}, FALSE)]
    /\ analyzedTabsData = [t \in TabIds |-> {}]
    /\ pendingAnalyses = [t \in TabIds |-> {}]
    /\ inFlight = EmptyBag
    /\ clock = 0

SpecTabs == InitTabs /\ [][NextTabs]_vars

\* getDomFeaturesForTab settles within its timeout and the delivery of
\* analysisCompleted settles when the channel closes: an analysis that has
\* started does not stay unsettled
SpecTabsFair ==
    /\ SpecTabs
    /\ \A a \in Analyses : WF_vars(Settles(a))

SpecExtract == InitExtract /\ [][NextExtract]_vars

SpecPredict == InitPredict /\ [][NextPredict]_vars

----------------------------------------------------------------------------
(* Properties of the score fusion, checked under SpecFusion *)

\* C5: for every signal list calculateSuspiciousScore returns a number in
\* the closed range [0,1], never NaN and never a value outside the range.
C5_ScoreInUnitRange ==
    \A r \in fusion :
        /\ ~IsNaN(r.suspiciousScore)
        /\ IsFinite(r.suspiciousScore)
        /\ RGe(r.suspiciousScore, Zero)
        /\ RLe(r.suspiciousScore, One)

\* a fused list whose score after the pulls lies above 1 (boost triggered)
C5_Witness ==
    \E r \in fusion : BoostTriggered(r.features) /\ RGt(r.finalScore, One)

\* C6: the legitimacy pull is checked first; whenever its condition holds the
\* legitimacy pull alone is applied, also when an escalation condition holds,
\* so no list is pulled in both directions in one pass.
C6_PullsExclusive ==
    \A r \in fusion :
        /\ ~(r.legitimacyPull /\ r.phishingPull)
        /\ r.legitimacyCondition =>
              /\ r.legitimacyPull
              /\ ~r.phishingPull
              /\ r.finalScore =
                    RMul(r.basicScore,
                         RSub(One, RMul(Square(legitimateRatio(r.features)), Half)))

\* a fused list for which both the legitimacy condition and an escalation
\* condition hold
C6_Witness ==
    \E r \in fusion : r.legitimacyCondition /\ r.escalationCondition

AnyFired(fs) ==
    \E i \in 1..Len(fs) : fs[i].name \in BoostedNames /\ fs[i].value = TRUE

PlainSum(fs) == SumOver(fs, PlainImpact)

SpecifiedFactor(f) ==
    IF f.name = "hasOverlappingInputTraps" THEN R(18, 10)
    ELSE IF f.name \in { "hasSuspiciousInvisibleCredentialInputs",
                         "hasSuspiciousTransparentOverlays" } THEN R(15, 10)
    ELSE One

BoostedImpact(f) == RMul(PlainImpact(f), SpecifiedFactor(f))

BoostedSum(fs) == SumOver(fs, BoostedImpact)

\* C7: the boost (1.8 for hasOverlappingInputTraps, 1.5 for the other two
\* named signals) is applied only when one of the three signals has value
\* true; when none has fired every signal contributes impact x weight, and
\* signals other than the three are never boosted.
C7_BoostOnlyWhenTriggered ==
    \A r \in fusion :
        LET fs == r.features
            tw == totalWeight(fs)
            raw == RMul(r.weightedAvgImpact, tw)
        IN  RGt(tw, Zero) =>
               /\ ~AnyFired(fs) => raw = PlainSum(fs)
               /\ raw \in { PlainSum(fs), BoostedSum(fs) }

\* a fused list in which a named signal has fired next to an ordinary signal
\* and the boost changed the weighted sum
C7_Witness ==
    \E r \in fusion :
        /\ AnyFired(r.features)
        /\ \E i \in 1..Len(r.features) :
               /\ r.features[i].name \notin BoostedNames
               /\ r.features[i].impact /= Zero
        /\ RMul(r.weightedAvgImpact, totalWeight(r.features)) /= PlainSum(r.features)

\* the four escalation conditions as stated
StatedEscalation(fs, basic) ==
    LET nPhish == Len(phishingFeatures(fs))
        pSum == SumOver(phishingFeatures(fs), PlainImpact)
        lSum == SumOver(legitimateFeatures(fs), AbsImpact)
        share == IF RGt(RAdd(pSum, lSum), Zero) THEN RDiv(pSum, RAdd(pSum, lSum)) ELSE Zero
        avgImpact == IF nPhish > 0 THEN RDiv(pSum, R(nPhish, 1)) ELSE Zero
    IN  \/ Len(fs) > 0 /\ RGt(R(nPhish, Len(fs)), R(4, 10)) /\ RGt(basic, Half)
        \/ RGt(share, R(35, 100)) /\ RGt(basic, Half)
        \/ RGt(avgImpact, R(6, 10)) /\ RGt(basic, R(45, 100))
        \/ RGt(pSum, RMul(lSum, R(3, 2))) /\ RGt(basic, R(45, 100))

StatedPull(fs, basic) ==
    LET m == MathMax(phishingRatio(fs), phishingImpactRatio(fs))
    IN  RAdd(basic, RMul(RMul(RSub(One, basic), RMul(m, m)), R(7, 10)))

InUnitRange(x) == IF RLt(x, Zero) THEN Zero ELSE IF RGt(x, One) THEN One ELSE x

\* C8: when the legitimacy pull does not apply, the score is
\* basicScore + (1 - basicScore) x max(phishingRatio, phishingImpactRatio)^2 x 0.7
\* if and only if one of the four escalation conditions holds; otherwise the
\* result is basicScore; both clamped to [0,1].
C8_EscalationPull ==
    \A r \in fusion :
        LET fs == r.features
            basic == r.basicScore
            legitimacy == Len(fs) > 0
                          /\ RGt(R(Len(legitimateFeatures(fs)), Len(fs)), R(7, 10))
                          /\ RLt(basic, Half)
        IN  ~legitimacy =>
               /\ r.phishingPull <=> StatedEscalation(fs, basic)
               /\ r.suspiciousScore =
                     IF StatedEscalation(fs, basic)
                     THEN InUnitRange(StatedPull(fs, basic))
                     ELSE InUnitRange(basic)

\* a fused list that an escalation condition pulled away from its basic score
C8_Witness ==
    \E r \in fusion :
        /\ ~r.legitimacyCondition
        /\ r.phishingPull
        /\ r.suspiciousScore /= r.basicScore
        /\ RLt(r.suspiciousScore, One)

\* C9: the single signal {weight: 1, impact: -1} fuses to exactly 0 after the
\* legitimacy pull; the single signal {weight: 1, impact: 1} fuses to 1 after
\* the phishing pull.
C9_SingleSignalExtremes ==
    \A r \in fusion :
        (Len(r.features) = 1 /\ r.features[1].weight = One) =>
            /\ r.features[1].impact = R(-1, 1) =>
                  r.legitimacyPull /\ r.finalScore = Zero /\ r.suspiciousScore = Zero
            /\ r.features[1].impact = One =>
                  r.phishingPull /\ r.suspiciousScore = One

\* the list with the single signal {weight: 1, impact: -1} has been fused
C9_Witness ==
    \E r \in fusion :
        /\ Len(r.features) = 1
        /\ r.features[1].weight = One
        /\ r.features[1].impact = R(-1, 1)

\* C10: the empty signal list fuses to exactly 0.5: the weighted average is 0,
\* neither pull is triggered, and the result is the neutral midpoint.
C10_EmptyListNeutral ==
    \A r \in fusion :
        r.features = <<>> =>
            /\ r.weightedAvgImpact = Zero
            /\ ~r.legitimacyPull
            /\ ~r.phishingPull
            /\ r.suspiciousScore = Half

\* the empty list has been fused
C10_Witness == \E r \in fusion : r.features = <<>>

----------------------------------------------------------------------------
(* Properties of the combined detector, checked under SpecCombined *)

\* C1: called with no content signals, the verdict has confidence null and
\* domWeight 0, urlWeight 1.0, and a final score equal to the classifier's
\* phishingProbability.
C1_UrlOnlyVerdict ==
    \A v \in verdict :
        ~Truthy(v.domFeatures) =>
            /\ v.confidence = {}
            /\ v.domWeight = Zero
            /\ v.urlWeight = One
            /\ v.finalScore = v.urlFeatures.phishingProbability

HasSentinel(df) ==
    \E i \in 1..Len(df.features) : df.features[i].name \in EmittedSentinelNames

\* C2: signals with at least one extraction-failure sentinel name give
\* urlWeight 0.9 and domWeight 0.1; signals without a sentinel give 0.5 and 0.5.
C2_SentinelWeights ==
    \A v \in verdict :
        Truthy(v.domFeatures) =>
            IF HasSentinel(v.domFeatures)
            THEN v.urlWeight = R(9, 10) /\ v.domWeight = R(1, 10)
            ELSE v.urlWeight = Half /\ v.domWeight = Half

\* C3: confidence is null exactly when no signal record was supplied (argument
\* omitted or null); otherwise it is round(final x 100), and both sources
\* contributed to the final score.
C3_ConfidenceNullIffNoSignals ==
    \A v \in verdict :
        /\ v.confidence = {} <=> v.domFeatures.kind \in { "undefined", "null" }
        /\ v.confidence /= {} =>
              /\ v.confidence = { MathRound(RMul(v.finalScore, R(100, 1))) }
              /\ Truthy(v.domFeatures)

\* C4: with content signals, final = urlScore x urlWeight + domScore x domWeight
\* with urlWeight + domWeight = 1, isPhishing iff final >= 0.5, and the
\* separately reported domResult is true iff domScore >= 0.5.
C4_WeightedVerdict ==
    \A v \in verdict :
        Truthy(v.domFeatures) =>
            LET d == v.calculationDetails
                uw == d.urlWeight
            IN  \A dw \in d.domWeight :
                    /\ RAdd(uw, dw) = One
                    /\ v.finalScore =
                          RAdd(RMul(d.urlScore, uw),
                               RMul(v.domFeatures.suspiciousScore, dw))
                    /\ d.domWeight /= {}
                    /\ v.isPhishing <=> RGe(v.finalScore, Half)
                    /\ v.domDetectorResult =
                          { RGe(v.domFeatures.suspiciousScore, Half) }

\* a verdict on degraded weights whose content result differs from the fused one
C4_Witness ==
    \E v \in verdict :
        /\ Truthy(v.domFeatures)
        /\ v.urlWeight = R(9, 10)
        /\ v.domDetectorResult = { TRUE }
        /\ ~v.isPhishing

----------------------------------------------------------------------------
(* Properties of the content-signal acquisition, checked under SpecAcquire *)

\* the branches of the content script that stand for a failed inspection
FailedResponseBranches ==
    { "analyzeDomError", "fallback", "fallbackFailed", "emptyResult",
      "contentTimeout", "critical" }

\* the acquisition went through one of its failure paths
FailurePathTaken ==
    \/ acquisition \in { "timeout", "lastError", "invalidStructure",
                         "invalidResponse", "exception" }
    \/ /\ acquisition = "received"
       /\ \E r \in response : r.branch \in FailedResponseBranches

\* C11: every failure path of the acquisition (background timeout, channel
\* error, invalid structure, missing response, empty result, exception,
\* content-script timeout and fallback) hands the combined detector a signal
\* record with a sentinel name, every such name is recognised, and the
\* verdict is computed with urlWeight 0.9 and domWeight 0.1.
C11_FailurePathsDegrade ==
    \A v \in verdict :
        FailurePathTaken =>
            /\ Truthy(v.domFeatures)
            /\ HasSentinel(v.domFeatures)
            /\ hasErrorFeatures(v.domFeatures)
            /\ v.urlWeight = R(9, 10)
            /\ v.domWeight = R(1, 10)

----------------------------------------------------------------------------
(* Properties of parseUrl, checked under SpecParse *)

\* the decomposition as stated: every split is made at the first occurrence
\* of its separator and keeps everything after it
StatedParse(u) ==
    LET hash == IndexOf(u, <<"#">>)
        base == IF hash = 0 THEN u ELSE SubSeq(u, 1, hash - 1)
        sep == IndexOf(base, SchemeSeparator)
        scheme == IF sep = 0 THEN <<>> ELSE ToLowerCase(SubSeq(base, 1, sep - 1))
        rest == IF sep = 0 THEN base ELSE Substring(base, sep + Len(SchemeSeparator))
        slash == IndexOf(rest, <<"/">>)
        authority == IF slash = 0 THEN rest ELSE SubSeq(rest, 1, slash - 1)
        pathQuery == IF slash = 0 THEN <<>> ELSE Substring(rest, slash)
        mark == IndexOf(pathQuery, <<"?">>)
        path == IF mark = 0 THEN pathQuery ELSE SubSeq(pathQuery, 1, mark - 1)
        query == IF mark = 0 THEN <<>> ELSE Substring(pathQuery, mark + 1)
        ats == { i \in 1..Len(authority) : authority[i] = "@" }
        lastAt == IF ats = {} THEN 0 ELSE CHOOSE i \in ats : \A j \in ats : j <= i
    IN  [ base |-> base,
          scheme |-> scheme,
          userinfo |-> SubSeq(authority, 1, lastAt),
          hostname |-> Substring(authority, lastAt + 1),
          path |-> path,
          query |-> query,
          hasScheme |-> sep /= 0,
          hasQuery |-> mark /= 0 ]

\* the url without its fragment, put together again from the parts
Reassembled(p, stated) ==
    (IF stated.hasScheme THEN p.scheme \o SchemeSeparator ELSE <<>>)
    \o stated.userinfo \o p.hostname \o p.path
    \o (IF stated.hasQuery THEN <<"?">> \o p.query ELSE <<>>)

\* C18: parseUrl drops the fragment from the first '#', splits the scheme at
\* '://' keeping everything after the separator as the rest, splits the
\* hostname from path and query at the first '/', the query at the first
\* '?', keeps the hostname after its last '@', and apart from fragment and
\* userinfo loses no character of the url.
C18_ParseUrlDecomposition ==
    \A p \in parsedUrl :
        LET stated == StatedParse(url)
        IN  /\ ~p.threw
            /\ p.scheme = stated.scheme
            /\ p.hostname = stated.hostname
            /\ p.path = stated.path
            /\ p.query = stated.query
            /\ ToLowerCase(Reassembled(p, stated)) = ToLowerCase(stated.base)

----------------------------------------------------------------------------
(* Properties of extractDomainParts, checked under SpecDomain *)

\* a label that is written with one to three digits and lies in 0..255
StatedOctet(l) ==
    /\ Len(l) \in 1..3
    /\ \A j \in 1..Len(l) : l[j] \in { "0", "1", "2", "3", "4", "5", "6", "7", "8", "9" }
    /\ \E v \in 0..255 : v = ParseInt(l)

StatedIpLiteral(ls) == Len(ls) = 4 /\ \A i \in 1..4 : StatedOctet(ls[i])

\* trailing dots, a port, or a port followed by trailing dots
TrailingSuffixes == { <<>>, <<".">>, <<".", ".">>, <<":", "8">>, <<":", "8", ".">> }

StrippedLabels(h) ==
    IF h.suffix \in TrailingSuffixes THEN h.labels ELSE Append(h.labels, <<>>)

\* the number of labels the tld is made of, by the ordered fallback as stated
StatedTldLength(ls) ==
    LET n == Len(ls)
        suffix(k) == SubSeq(ls, n - k + 1, n)
        known == { k \in 1..3 :
                      /\ k <= n - 1
                      /\ \/ Join(suffix(k), <<".">>) \in multiLevelTlds
                         \/ /\ k >= 2
                            /\ suffix(k)[1] \in { <<"c", "o">>, <<"c", "o", "m">>, <<"a", "c">>,
                                                  <<"e", "d", "u">>, <<"g", "o", "v">> } }
    IN  IF known /= {} THEN CHOOSE k \in known : \A j \in known : j <= k
        ELSE IF /\ ls[n - 1] \in { <<"c", "o">>, <<"c", "o", "m">>, <<"o", "r", "g">>,
                                   <<"n", "e", "t">>, <<"a", "c">>, <<"g", "o", "v">>,
                                   <<"e", "d", "u">> }
                /\ Len(ls[n]) = 2
        THEN 2
        ELSE 1

\* subdomain, domain and tld joined by dots
Rejoined(r) ==
    (IF r.subdomain = <<>> THEN <<>> ELSE r.subdomain \o <<".">>)
    \o r.domain \o <<".">> \o r.tld

\* C17: for three or more labels the tld is the longest suffix of the last
\* 1-3 labels found in the multi-level table or starting with co./com./ac./
\* edu./gov.; otherwise a second-to-last label in {co, com, org, net, ac,
\* gov, edu} with a two-letter last label gives a compound tld; otherwise
\* the tld is the last label.  Domain is the label before the tld, subdomain
\* everything before it, and the three joined by dots give the stripped
\* hostname.
C17_OrderedFallback ==
    \A r \in domainParts :
        LET ls == StrippedLabels(hostnameArg)
            n == Len(ls)
            k == StatedTldLength(ls)
        IN  (n >= 3 /\ ~StatedIpLiteral(ls)) =>
               /\ r.tld = Join(SubSeq(ls, n - k + 1, n), <<".">>)
               /\ r.domain = ls[n - k]
               /\ r.subdomain = Join(SubSeq(ls, 1, n - k - 1), <<".">>)
               /\ Rejoined(r) = Join(ls, <<".">>)

\* a hostname whose last two and last three labels both qualify as tld
C17_Witness ==
    \E r \in domainParts :
        /\ hostnameArg.labels = << <<"a">>, <<"c", "o">>, <<"c", "o">>, <<"u", "k">> >>
        /\ r.tld = <<"c", "o", ".", "c", "o", ".", "u", "k">>
        /\ r.domain = <<"a">>

----------------------------------------------------------------------------
(* Properties of extractFeatures, checked under SpecExtract, and of predict, *)
(* checked under SpecPredict                                                *)

\* C12: for every input string, malformed ones included (empty, no scheme,
\* empty or garbage host, several '://' or '@'), normalization, parsing,
\* domain splitting, feature extraction and prediction return without
\* throwing; the worst case is an empty domain or tld.
C12_NeverThrows ==
    \A p \in prediction :
        /\ ~p.threw
        /\ p.score \in Int
        /\ \A i \in 1..Len(p.features) : p.features[i][2] \in Int

\* predict returned for a url with several '://' and an empty domain
C12_Witness ==
    \E p \in prediction :
        /\ Len(Split(url, SchemeSeparator)) > 2
        /\ p.domainParts.domain = <<>>
        /\ p.domainParts.tld = <<>>
        /\ ~p.threw

\* the names that have a case in the switch of calculateFeature
NamesWithCase ==
    { "keyword_count", "subdomain_count", "has_at_symbol", "has_port", "path_depth",
      "domain_length", "domain_only_length" }

\* C13: after extractFeatures the vector has a numeric entry for every name
\* of feature_names, also where the value is 0, and a name without a case in
\* the switch has the value 0 and a warning, not an exception or no entry.
C13_EveryNameHasEntry ==
    \A i \in 1..Len(calls) :
        LET r == calls[i].result
            names == metadata.feature_names
        IN  /\ ~r.threw
            /\ \A k \in 1..Len(names) :
                  /\ Cardinality(Lookup(r.features, names[k])) = 1
                  /\ \A v \in Lookup(r.features, names[k]) : v \in Int
                  /\ names[k] \notin NamesWithCase =>
                        /\ Lookup(r.features, names[k]) = { 0 }
                        /\ \E w \in 1..Len(r.warnings) : r.warnings[w] = names[k]
            /\ \A w \in 1..Len(r.warnings) : r.warnings[w] \notin NamesWithCase

\* extractFeatures returned a vector with a computed 0 and with the 0 of a
\* name that has no case
C13_Witness ==
    \E i \in 1..Len(calls) :
        /\ Lookup(calls[i].result.features, "has_at_symbol") = { 0 }
        /\ Lookup(calls[i].result.features, "brand_similarity") = { 0 }
        /\ calls[i].result.warnings = <<"brand_similarity">>

\* intercept + sum over i of (vector[feature_names[i]] or 0) x coefficients[i]
StatedRawScore(md, vector) ==
    md.intercept
    + SumSeq([i \in 1..Len(md.feature_names) |->
                 R((IF Lookup(vector, md.feature_names[i]) = {} THEN 0
                    ELSE Only(Lookup(vector, md.feature_names[i])))
                   * md.coefficients[i], 1)])[1]

\* C14: the raw score is intercept + the sum over i of the vector's entry for
\* feature_names[i] (0 if absent) times coefficients[i]: the coefficient at
\* position i goes with the name at position i.
C14_PositionalDotProduct ==
    \A p \in prediction : p.score = StatedRawScore(metadata, p.features)

\* a prediction in which two features with different coefficients count
C14_Witness ==
    \E p \in prediction :
        /\ Lookup(p.features, "has_at_symbol") = { 1 }
        /\ Lookup(p.features, "path_depth") = { 1 }
        /\ p.score = metadata.intercept + 2 + 1

C15_SigmoidContracts ==
    \A v \in verdict :
        LET x == v.urlFeatures.score
        IN  /\ v.urlFeatures.probability = sigmoid(-x)
            /\ v.urlFeatures.probability = sigmoid(Abs(x))
            /\ x = 0 => v.urlFeatures.phishingProbability = Half

\* a verdict on a negative raw score, where the two transforms differ
C15_Witness ==
    \E v \in verdict :
        /\ v.urlFeatures.score < 0
        /\ RGt(v.urlFeatures.probability, Half)
        /\ RLt(v.urlFeatures.phishingProbability, Half)

\* C20: what a content inspection returns, its signals and its suspicion
\* score, depends only on the inspected content tree: two inspections of the
\* same tree return the same signals and the same score, whatever was
\* detected earlier and however much time has passed.
C20_InspectionDependsOnlyOnTree ==
    \A i \in 1..Len(inspections), j \in 1..Len(inspections) :
        inspections[i].tree = inspections[j].tree
            => /\ inspections[i].features = inspections[j].features
               /\ inspections[i].suspiciousScore = inspections[j].suspiciousScore

\* C21: with a lookup table absent from the artifact, extractFeatures does
\* not throw, its vector has an entry for every feature name, and a feature
\* that looks the absent table up is 0.
C21_AbsentTablesDegrade ==
    \A r \in tableResult :
        /\ ~r.threw
        /\ \A i \in 1..Len(TableFeatureNames) :
               /\ Cardinality(Lookup(r.features, TableFeatureNames[i])) = 1
               /\ artifact[TableOf(TableFeatureNames[i])] = {}
                      => Lookup(r.features, TableFeatureNames[i]) = { 0 }

NamesOf(fs) == [i \in 1..Len(fs) |-> fs[i].name]

Occurrences(name, fs) == Cardinality({ i \in 1..Len(fs) : fs[i].name = name })

AllChecks ==
    UNION { { Detectors[k][i] : i \in 1..Len(Detectors[k]) } : k \in 1..Len(Detectors) }

StatedSuspicious(input) ==
    /\ input.name /= "none"
    /\ ~AllowListed(input)
    /\ MatchesSuspicious(input)

StatedImpact(total, suspicious) ==
    IF suspicious = 0 THEN (IF total >= 10 THEN R(-4, 10) ELSE R(-2, 10))
    ELSE IF 2 * suspicious >= total THEN R(8, 10)
    ELSE IF 4 * suspicious >= total THEN R(5, 10)
    ELSE R(3, 10)

\* C23: the impact of the hidden-input signal is -0.4 or -0.2 on a page with
\* no suspicious hidden input (-0.4 from 10 hidden inputs on), and 0.3, 0.5
\* or 0.8 on a page with a suspicious hidden input, as the ratio of
\* suspicious to all hidden inputs is above 0, at least 0.25, at least 0.5.
C23_HiddenInputGrading ==
    \A sig \in hiddenSignal :
        sig.feature.impact =
            StatedImpact(CountKinds(hiddenInputs, InputKinds),
                         CountKinds(hiddenInputs,
                                    { k \in InputKinds : StatedSuspicious(k) }))

\* an input that bears on card data: by its length, its placeholder, its
\* keywords, its autocomplete attribute or its type
Corroborating(e) ==
    \/ PossibleCC(e)
    \/ PossibleCVV(e)
    \/ e.expiryPlaceholder
    \/ e.financialKeyword
    \/ e.autocomplete /= ""
    \/ e.type = "creditcard"

\* C24: the financial-data flag is set only on a page with at least two
\* corroborating fields; no single field makes collectsFinancialData true.
C24_FinancialNeedsTwoFields ==
    \A r \in dataCollection :
        r.financial
            => Cardinality({ i \in 1..Len(formPage.inputs) :
                                 Corroborating(formPage.inputs[i]) }) >= 2

\* C25: called with no content signals, the verdict's isPhishing equals the
\* url classifier's own verdict (raw score > 0), for every raw score, 0
\* included.
C25_UrlOnlyAgreesWithClassifier ==
    \A v \in verdict :
        ~Truthy(v.domFeatures) =>
            (v.isPhishing <=> v.urlDetectorResult)

----------------------------------------------------------------------------
(* Properties of getDomFeaturesForTab, checked under SpecSettle *)

\* the single-signal records getDomFeaturesForTab builds itself
Sentinels ==
    { ErrorIndicator(n) : n \in { "timeoutError", "communicationError",
                                  "invalidStructure", "invalidResponse",
                                  "exceptionError" } }

\* the value is what the content script sent, and it holds a features array
FromContentScript(v) ==
    \E h \in sendState.handed :
        /\ ~h.lastError
        /\ h.delivered = v
        /\ v.kind = "object"

\* C29: getDomFeaturesForTab is settled once more than 8 s have passed; the
\* value it settled with is a record with a features array, either what the
\* content script sent or one of the five single-signal records; and once
\* settled the value never changes, whatever arrives later.
C29_SettlesOnceWithFeatures ==
    /\ [](/\ elapsed > AcquireTimeout => settled # {}
          /\ Cardinality(settled) <= 1
          /\ \A v \in settled : v.kind = "object"
                                /\ (v \in Sentinels \/ FromContentScript(v)))
    /\ [][settled # {} => settled' = settled]_vars

\* the timer fired first and the content script's signals arrived afterwards
C29_Witness ==
    /\ timeoutId = "fired"
    /\ sendState.phase = "calledBack"
    /\ resolveCalls = 2
    /\ settled = { ErrorIndicator("timeoutError") }
    /\ \E h \in sendState.handed : ~h.lastError /\ h.delivered \in { FallbackFeatures(TRUE, TRUE) }

----------------------------------------------------------------------------
(* Properties of the per-tab bookkeeping, checked under SpecTabs and        *)
(* SpecTabsFair                                                             *)

\* the tab has finished loading an http(s) document and no analysis of the
\* tab is in flight
LoadedAndSettled(t) ==
    /\ browserTabs[t].status = "open"
    /\ browserTabs[t].complete
    /\ \A u \in browserTabs[t].url : StartsWithHttp(u)
    /\ InFlightOf(t) = 0

\* C26: once a tab has finished loading a url and every analysis started for
\* the tab has settled, the entry stored for the tab is the one of that url.
C26_StoredEntryIsOfLoadedUrl ==
    \A t \in TabIds :
        LoadedAndSettled(t) =>
            \E e \in analyzedTabsData[t] : e.url \in browserTabs[t].url

\* C27: at most one analysis of a tab is in flight, and the tab is in
\* pendingAnalyses exactly while one is.
C27_OneAnalysisPerTab ==
    \A t \in TabIds :
        /\ InFlightOf(t) <= 1
        /\ MapHas(pendingAnalyses, t) <=> InFlightOf(t) = 1

\* C28: a removed tab has no entry in analyzedTabsData and none in
\* pendingAnalyses, whatever settles after the removal.
C28_RemovedTabHasNoEntry ==
    \A t \in TabIds :
        browserTabs[t].status = "removed" =>
            /\ ~MapHas(analyzedTabsData, t)
            /\ ~MapHas(pendingAnalyses, t)

\* C30: a tab that is in pendingAnalyses does not stay there: whether the
\* analysis returns, throws or gets no answer from the content script, the
\* entry is deleted.
C30_PendingIsDeleted ==
    \A t \in TabIds : MapHas(pendingAnalyses, t) ~> ~MapHas(pendingAnalyses, t)

\* a tab is pending past the stale threshold and the analysis that set the
\* entry still awaits the content script
C30_Witness ==
    \E t \in TabIds :
        /\ \E startTime \in pendingAnalyses[t] : clock - startTime > StaleAfter
        /\ \E a \in BagToSet(inFlight) :
               a.tab = t /\ a.origin = "onUpdated" /\ a.stage = "acquiring"

====
